---- MODULE Spec2Model ----
(***************************************************************************)
(* Model of the restic-backup-operator reconcilers.                        *)
(*                                                                         *)
(* Each Reconcile is one action: the whole handler, with every API call it *)
(* makes.  The calls of the most recent Reconcile are recorded, in order,  *)
(* in `calls`, and its return value in `result`.  The inputs of a          *)
(* Reconcile that the program does not control (an API call that fails, the *)
(* text an executor call returns) are drawn with \E.                       *)
(*                                                                         *)
(* Three specifications share the module, one per group of reconcilers:    *)
(*   SpecRestore  the ResticRestore state machine and its Job              *)
(*   SpecBackup   the ResticBackup and GlobalRetentionPolicy reconcilers   *)
(*                and their CronJobs                                       *)
(*   SpecRepo     the ResticRepository reconciler and the restic executor  *)
(* A specification leaves the variables of the others unchanged.           *)
(***************************************************************************)
EXTENDS Integers, Sequences, FiniteSets, TLC

VARIABLES
    clock,         \* time.Now(), a logical clock
    restore,       \* the ResticRestore object as persisted in the object store
    restoreCache,  \* the copy of it the reconciler's cached client reads
    backupObj,     \* the ResticBackup the Restore refers to: does it exist
    repoObj,       \* the ResticRepository referred to through it: does it exist
    jobs,          \* the Jobs of the Restore's namespace
    jobCreates,    \* history: the number of Jobs created for the Restore so far
    backup,        \* the ResticBackup object as persisted
    policy,        \* the GlobalRetentionPolicy object as persisted
    repos,         \* the ResticRepository named by the references, per namespace
    cronJobs,      \* the CronJobs of the namespace of the Backup and the policy
    resticRepository,  \* the ResticRepository object as persisted
    repositoryCache,   \* the copy of it the reconciler's cached client reads
    secret,        \* the credentials Secret of the Repository: its state
    staleLockThreshold,  \* ResticRepositoryReconciler.StaleLockThreshold, in ms
    calls,         \* the API calls of the most recent Reconcile, in order
    result,        \* what the most recent Reconcile returned
    config,        \* notifications.Config: the backends of a notification
    event,         \* notifications.Event: its type
    servers,       \* what each backend's Notify returns when it is called
    received,      \* the backends whose Notify was called, in order
    notifyErr      \* what Manager.Notify returned; NotNotified before the call

restoreVars == <<restore, restoreCache, backupObj, repoObj, jobs, jobCreates>>

backupVars == <<backup, policy, repos, cronJobs>>

repoVars == <<resticRepository, repositoryCache, secret, staleLockThreshold>>

notifyVars == <<config, event, servers, received, notifyErr>>

vars == <<clock, restoreVars, backupVars, repoVars, calls, result, notifyVars>>

----------------------------------------------------------------------------
(* Bounds *)

MaxClock == 2

\* Jobs created for one Restore over its life
MaxJobCreates == 2

\* edits a user makes to the spec of one Backup or policy (metadata.generation - 1)
MaxEdits == 1

\* the most entries of spec.policies of a GlobalRetentionPolicy
MaxPolicies == 2

----------------------------------------------------------------------------
(* internal/conditions *)

\* metav1.Condition; the message is kept only where a claim reads it
Cond(type, status, reason, message) ==
    [type |-> type, status |-> status, reason |-> reason, message |-> message,
     lastTransitionTime |-> 0]

ReadyCondition(reason, message) == Cond("Ready", "True", reason, message)

NotReadyCondition(reason, message) == Cond("Ready", "False", reason, message)

\* index of the first condition of the type, 0 when there is none
CondIndex(conds, type) ==
    IF \E i \in 1..Len(conds) : conds[i].type = type
    THEN CHOOSE i \in 1..Len(conds) :
             /\ conds[i].type = type
             /\ \A j \in 1..(i - 1) : conds[j].type # type
    ELSE 0

\* SetCondition without the search for the type: the condition is appended
SetCondition_AlwaysAppends(conds, condition, now) ==
    Append(conds, [condition EXCEPT !.lastTransitionTime = now])

\* SetCondition that stamps the time also when the status is unchanged
SetCondition_AlwaysStamps(conds, condition, now) ==
    LET i == CondIndex(conds, condition.type)
        stamped == [condition EXCEPT !.lastTransitionTime = now]
    IN  IF i = 0 THEN Append(conds, stamped) ELSE [conds EXCEPT ![i] = stamped]

SetCondition(conds, condition, now) ==
    LET i == CondIndex(conds, condition.type)
        stamped == [condition EXCEPT !.lastTransitionTime = now]
    IN  IF i = 0
        THEN Append(conds, stamped)
        ELSE IF conds[i].status = condition.status
             THEN [conds EXCEPT ![i] =
                      [condition EXCEPT !.lastTransitionTime = conds[i].lastTransitionTime]]
             ELSE [conds EXCEPT ![i] = stamped]

\* RemoveCondition: the conditions of another type, in their order
RemoveCondition(conds, type) ==
    LET keep(c) == c.type # type IN SelectSeq(conds, keep)

\* GetCondition: the condition of the type, NoCond for nil
NoCond == Cond("", "", "", "")

GetCondition(conds, type) ==
    LET i == CondIndex(conds, type) IN IF i = 0 THEN NoCond ELSE conds[i]

IsConditionTrue(conds, type) ==
    LET c == GetCondition(conds, type) IN c # NoCond /\ c.status = "True"

\* the Ready condition is there, with status Unknown and reason RestoreInProgress
IsReadyUnknown(conds) ==
    LET c == GetCondition(conds, "Ready")
    IN  c # NoCond /\ c.status = "Unknown" /\ c.reason = "RestoreInProgress"

----------------------------------------------------------------------------
(* ctrl.Result and the error a Reconcile returns *)

Result(requeueAfter, err) == [requeueAfter |-> requeueAfter, err |-> err]

NoResult == [requeueAfter |-> -1, err |-> FALSE]

\* `calls` and `result` describe the Reconcile that has just returned; any
\* other step clears them
Returned == calls' = <<>> /\ result' = NoResult

\* an object that is not in the store
NoObject == [exists |-> FALSE]

\* the variables of the Restore, in a specification that has no Restore
RestoreIdle ==
    /\ restore = NoObject
    /\ restoreCache = NoObject
    /\ backupObj = FALSE
    /\ repoObj = FALSE
    /\ jobs = {}
    /\ jobCreates = 0

\* the variables of the Backup and the policy, in a specification without them
BackupIdle ==
    /\ backup = NoObject
    /\ policy = NoObject
    /\ repos = <<>>
    /\ cronJobs = {}

\* the variables of the Repository, in a specification that does not reconcile it
RepoIdle ==
    /\ resticRepository = NoObject
    /\ repositoryCache = NoObject
    /\ secret = "absent"
    /\ staleLockThreshold = 0

\* the marker of a Manager.Notify that has not been called
NotNotified == <<"not called">>

\* no notification in a specification that is not about Manager.Notify
NotifyIdle ==
    /\ config = [Pushgateway |-> [isNil |-> TRUE], Ntfy |-> [isNil |-> TRUE]]
    /\ event = ""
    /\ servers = <<>>
    /\ received = <<>>
    /\ notifyErr = NotNotified

\* one recorded API call
Call(op, ok, arg) == [op |-> op, ok |-> ok, arg |-> arg]

----------------------------------------------------------------------------
(* The object store, as the ResticRestore reconciler uses it.              *)
(* A write carries the resourceVersion the reconciler read, and the store  *)
(* refuses it when the object has changed since (optimistic concurrency).  *)
(* The resourceVersion is modelled by the object itself: `seen` is the     *)
(* object as the reconciler last read or wrote it, and a write is refused  *)
(* when the persisted object differs from it.                              *)
(* A Reconcile works on a context: the object in memory, what it has seen, *)
(* the persisted object, the Jobs, and the calls made so far.              *)

Log(c, call) == [c EXCEPT !.calls = Append(@, call)]

\* what a step hands on: did it succeed, and the context after it
Step(ok, c) == [ok |-> ok, c |-> c]

\* what a Reconcile hands back: the context after it and its return value
Out(c, res) == [c |-> c, res |-> res]

\* client.Update: metadata and spec are written, the status is not; an object
\* under deletion whose last finalizer is removed is gone
ApiUpdate(c, fail) ==
    IF fail \/ ~c.store.exists \/ c.store # c.seen
    THEN Step(FALSE, Log(c, Call("Update", FALSE, "")))
    ELSE LET gone == c.store.deleting /\ ~c.obj.finalizer
             s == [c.store EXCEPT !.finalizer = c.obj.finalizer, !.exists = ~gone]
         IN  Step(TRUE, Log([c EXCEPT !.store = s, !.obj = s, !.seen = s],
                            Call("Update", TRUE, "")))

\* a store that takes a status write whatever version it carries
ApiStatusUpdate_Unversioned(c, fail, what) ==
    IF fail \/ ~c.store.exists
    THEN Step(FALSE, Log(c, Call("StatusUpdate", FALSE, what)))
    ELSE LET s == [c.store EXCEPT !.status = c.obj.status]
         IN  Step(TRUE, Log([c EXCEPT !.store = s, !.obj = s, !.seen = s],
                            Call("StatusUpdate", TRUE, what)))

\* client.Status().Update: only the status is written; the call is recorded
\* with `what`, the phase or Ready reason it carries
ApiStatusUpdate(c, fail, what) ==
    IF fail \/ ~c.store.exists \/ c.store # c.seen
    THEN Step(FALSE, Log(c, Call("StatusUpdate", FALSE, what)))
    ELSE LET s == [c.store EXCEPT !.status = c.obj.status]
         IN  Step(TRUE, Log([c EXCEPT !.store = s, !.obj = s, !.seen = s],
                            Call("StatusUpdate", TRUE, what)))

\* client.Create of a Job: "AlreadyExists" when a Job of that name is there;
\* the call is recorded with the error it returned
ApiCreateJob(c, job, fail) ==
    IF fail
    THEN [err |-> "Error", c |-> Log(c, Call("CreateJob", FALSE, "Error"))]
    ELSE IF \E j \in c.jobs : j.name = job.name /\ j.namespace = job.namespace
         THEN [err |-> "AlreadyExists", c |-> Log(c, Call("CreateJob", FALSE, "AlreadyExists"))]
         ELSE [err |-> "", c |-> Log([c EXCEPT !.jobs = @ \cup {job}, !.created = @ + 1],
                                     Call("CreateJob", TRUE, ""))]

----------------------------------------------------------------------------
(* ResticRestore controller *)

RestorePhasePending == "Pending"

RestorePhaseInProgress == "InProgress"

RestorePhaseCompleted == "Completed"

RestorePhaseFailed == "Failed"

\* a nil *ObjectReference
NoRef == [name |-> "", namespace |-> ""]

RestoreNamespace == "ns1"

RestoreNames == {"r1"}

\* spec.snapshotID, and whether spec.snapshotSelector is set
RestoreSpecs == [snapshotID : {"", "abc123"}, snapshotSelector : BOOLEAN]

\* the object a user has just created
NewRestore(name, spec) ==
    [exists |-> TRUE, name |-> name, namespace |-> RestoreNamespace,
     deleting |-> FALSE, finalizer |-> FALSE, spec |-> spec,
     status |-> [phase |-> "", startTime |-> 0, completionTime |-> 0,
                 restoredSnapshot |-> "", jobRef |-> NoRef, conditions |-> <<>>]]

\* a resolution that overlooks the explicit ID
ResolveSnapshotID_AlwaysLatest(spec) == "latest"

\* "Determine snapshot ID" of handlePending
ResolveSnapshotID(spec) ==
    LET fromSelector == IF spec.snapshotID = "" /\ spec.snapshotSelector
                        THEN "latest" ELSE spec.snapshotID
    IN  IF fromSelector = "" THEN "latest" ELSE fromSelector

\* a generated name instead of the deterministic one
RestoreJobName_Generated(name) == "resticrestore-" \o name \o "-" \o ToString(clock)

RestoreJobName(name) == "resticrestore-" \o name

buildRestoreJob(r, snapshotID) ==
    [name |-> RestoreJobName(r.name), namespace |-> r.namespace, owner |-> r.name,
     snapshot |-> snapshotID, succeeded |-> 0, failed |-> 0]

\* the faults one Reconcile of a Restore can meet; a plan is the set of calls
\* that fail.  Every write to the Restore returns at its first failure, and a
\* failed read of the Backup or Repository ends the resolution, so these plans
\* reach every outcome a set of failing calls can produce.
RestoreFaults ==
    {{}, {"get"}, {"update"}, {"statusPending"}, {"status"}, {"getBackup"},
     {"getRepository"}, {"create"}, {"getJob"}, {"getBackup", "status"},
     {"getRepository", "status"}, {"create", "status"}}

\* the closing Status().Update of a handler branch, and its return
FinishRestore(c, f, requeueAfter) ==
    LET w == ApiStatusUpdate(c, "status" \in f, c.obj.status.phase)
    IN  IF w.ok THEN Out(w.c, Result(requeueAfter, FALSE)) ELSE Out(w.c, Result(0, TRUE))

\* a failure that never records when it happened
FailRestore_NoCompletionTime(c, f, reason, now, complete) ==
    LET o == [c.obj EXCEPT
                 !.status.conditions = SetCondition(@, NotReadyCondition(reason, ""), now),
                 !.status.phase = RestorePhaseFailed]
    IN  FinishRestore([c EXCEPT !.obj = o], f, 0)

\* a failure that asks for another try after the polling interval
FailRestore_Requeues(c, f, reason, now, complete) ==
    LET o == [c.obj EXCEPT
                 !.status.conditions = SetCondition(@, NotReadyCondition(reason, ""), now),
                 !.status.phase = RestorePhaseFailed,
                 !.status.completionTime = IF complete THEN now ELSE @]
    IN  FinishRestore([c EXCEPT !.obj = o], f, 10)

\* every failure stamps the completion time
FailRestore_AlwaysCompletes(c, f, reason, now, complete) ==
    LET o == [c.obj EXCEPT
                 !.status.conditions = SetCondition(@, NotReadyCondition(reason, ""), now),
                 !.status.phase = RestorePhaseFailed,
                 !.status.completionTime = now]
    IN  FinishRestore([c EXCEPT !.obj = o], f, 0)

\* a branch that fails the Restore: setCondition, phase Failed, status write
FailRestore(c, f, reason, now, complete) ==
    LET o == [c.obj EXCEPT
                 !.status.conditions = SetCondition(@, NotReadyCondition(reason, ""), now),
                 !.status.phase = RestorePhaseFailed,
                 !.status.completionTime = IF complete THEN now ELSE @]
    IN  FinishRestore([c EXCEPT !.obj = o], f, 0)

handleDeletion(c, f) ==
    IF c.obj.finalizer
    THEN LET w == ApiUpdate([c EXCEPT !.obj.finalizer = FALSE], "update" \in f)
         IN  IF w.ok THEN Out(w.c, Result(0, FALSE)) ELSE Out(w.c, Result(0, TRUE))
    ELSE Out(c, Result(0, FALSE))

\* handlePending with every error of the Create taken as a failure
handlePending_ExistsIsFailure(c, f, now, haveBackup, haveRepository) ==
    LET backupOk == haveBackup /\ "getBackup" \notin f
        c1 == Log(c, Call("GetBackup", backupOk, ""))
        repoOk == haveRepository /\ "getRepository" \notin f
        c2 == Log(c1, Call("GetRepository", repoOk, ""))
    IN  IF ~backupOk THEN FailRestore(c1, f, "BackupNotFound", now, FALSE)
        ELSE IF ~repoOk THEN FailRestore(c2, f, "RepositoryNotFound", now, FALSE)
        ELSE
        LET snapshotID == ResolveSnapshotID(c2.obj.spec)
            job == buildRestoreJob(c2.obj, snapshotID)
            cr == ApiCreateJob(c2, job, "create" \in f)
        IN  IF cr.err # ""
            THEN FailRestore(cr.c, f, "JobCreationFailed", now, FALSE)
            ELSE
            LET o == [cr.c.obj EXCEPT
                         !.status.phase = RestorePhaseInProgress,
                         !.status.startTime = now,
                         !.status.restoredSnapshot = snapshotID,
                         !.status.jobRef = [name |-> job.name, namespace |-> job.namespace],
                         !.status.conditions =
                             SetCondition(@, Cond("Ready", "Unknown", "RestoreInProgress",
                                                  "Restore job is running"), now)]
            IN  FinishRestore([cr.c EXCEPT !.obj = o], f, 10)

handlePending(c, f, now, haveBackup, haveRepository) ==
    LET backupOk == haveBackup /\ "getBackup" \notin f
        c1 == Log(c, Call("GetBackup", backupOk, ""))
        repoOk == haveRepository /\ "getRepository" \notin f
        c2 == Log(c1, Call("GetRepository", repoOk, ""))
    IN  IF ~backupOk THEN FailRestore(c1, f, "BackupNotFound", now, FALSE)
        ELSE IF ~repoOk THEN FailRestore(c2, f, "RepositoryNotFound", now, FALSE)
        ELSE
        LET snapshotID == ResolveSnapshotID(c2.obj.spec)
            job == buildRestoreJob(c2.obj, snapshotID)
            cr == ApiCreateJob(c2, job, "create" \in f)
        IN  IF cr.err = "Error"
            THEN FailRestore(cr.c, f, "JobCreationFailed", now, FALSE)
            ELSE
            LET o == [cr.c.obj EXCEPT
                         !.status.phase = RestorePhaseInProgress,
                         !.status.startTime = now,
                         !.status.restoredSnapshot = snapshotID,
                         !.status.jobRef = [name |-> job.name, namespace |-> job.namespace],
                         !.status.conditions =
                             SetCondition(@, Cond("Ready", "Unknown", "RestoreInProgress",
                                                  "Restore job is running"), now)]
            IN  FinishRestore([cr.c EXCEPT !.obj = o], f, 10)

\* handleInProgress that waits for an event instead of polling a running Job
handleInProgress_WaitsForEvent(c, f, now) ==
    IF c.obj.status.jobRef = NoRef
    THEN FailRestore(c, f, "JobNotFound", now, FALSE)
    ELSE IF "getJob" \in f
    THEN Out(Log(c, Call("GetJob", FALSE, "")), Result(0, TRUE))
    ELSE
    LET ref == c.obj.status.jobRef
        found == {j \in c.jobs : j.name = ref.name /\ j.namespace = ref.namespace}
    IN  IF found = {}
        THEN FailRestore(Log(c, Call("GetJob", FALSE, "NotFound")), f, "JobNotFound", now, FALSE)
        ELSE
        LET job == CHOOSE j \in found : TRUE
            c1 == Log(c, Call("GetJob", TRUE, ""))
        IN  IF job.succeeded > 0
            THEN FinishRestore(
                     [c1 EXCEPT
                         !.obj.status.phase = RestorePhaseCompleted,
                         !.obj.status.completionTime = now,
                         !.obj.status.conditions =
                             SetCondition(@, ReadyCondition("RestoreCompleted", ""), now)],
                     f, 0)
            ELSE IF job.failed > 0
            THEN FailRestore(c1, f, "RestoreFailed", now, TRUE)
            ELSE Out(c1, Result(0, FALSE))

\* handleInProgress that keeps polling for a Job that is not there
handleInProgress_PollsMissingJob(c, f, now) ==
    IF c.obj.status.jobRef = NoRef
    THEN FailRestore(c, f, "JobNotFound", now, FALSE)
    ELSE IF "getJob" \in f
    THEN Out(Log(c, Call("GetJob", FALSE, "")), Result(0, TRUE))
    ELSE
    LET ref == c.obj.status.jobRef
        found == {j \in c.jobs : j.name = ref.name /\ j.namespace = ref.namespace}
    IN  IF found = {}
        THEN Out(Log(c, Call("GetJob", FALSE, "NotFound")), Result(10, FALSE))
        ELSE
        LET job == CHOOSE j \in found : TRUE
            c1 == Log(c, Call("GetJob", TRUE, ""))
        IN  IF job.succeeded > 0
            THEN FinishRestore(
                     [c1 EXCEPT
                         !.obj.status.phase = RestorePhaseCompleted,
                         !.obj.status.completionTime = now,
                         !.obj.status.conditions =
                             SetCondition(@, ReadyCondition("RestoreCompleted", ""), now)],
                     f, 0)
            ELSE IF job.failed > 0
            THEN FailRestore(c1, f, "RestoreFailed", now, TRUE)
            ELSE Out(c1, Result(10, FALSE))

\* handleInProgress that looks at the failed pods before the succeeded ones
handleInProgress_FailedFirst(c, f, now) ==
    IF c.obj.status.jobRef = NoRef
    THEN FailRestore(c, f, "JobNotFound", now, FALSE)
    ELSE IF "getJob" \in f
    THEN Out(Log(c, Call("GetJob", FALSE, "")), Result(0, TRUE))
    ELSE
    LET ref == c.obj.status.jobRef
        found == {j \in c.jobs : j.name = ref.name /\ j.namespace = ref.namespace}
    IN  IF found = {}
        THEN FailRestore(Log(c, Call("GetJob", FALSE, "NotFound")), f, "JobNotFound", now, FALSE)
        ELSE
        LET job == CHOOSE j \in found : TRUE
            c1 == Log(c, Call("GetJob", TRUE, ""))
        IN  IF job.failed > 0
            THEN FailRestore(c1, f, "RestoreFailed", now, TRUE)
            ELSE IF job.succeeded > 0
            THEN FinishRestore(
                     [c1 EXCEPT
                         !.obj.status.phase = RestorePhaseCompleted,
                         !.obj.status.completionTime = now,
                         !.obj.status.conditions =
                             SetCondition(@, ReadyCondition("RestoreCompleted", ""), now)],
                     f, 0)
            ELSE Out(c1, Result(10, FALSE))

handleInProgress(c, f, now) ==
    IF c.obj.status.jobRef = NoRef
    THEN FailRestore(c, f, "JobNotFound", now, FALSE)
    ELSE IF "getJob" \in f
    THEN Out(Log(c, Call("GetJob", FALSE, "")), Result(0, TRUE))
    ELSE
    LET ref == c.obj.status.jobRef
        found == {j \in c.jobs : j.name = ref.name /\ j.namespace = ref.namespace}
    IN  IF found = {}
        THEN FailRestore(Log(c, Call("GetJob", FALSE, "NotFound")), f, "JobNotFound", now, FALSE)
        ELSE
        LET job == CHOOSE j \in found : TRUE
            c1 == Log(c, Call("GetJob", TRUE, ""))
        IN  IF job.succeeded > 0
            THEN FinishRestore(
                     [c1 EXCEPT
                         !.obj.status.phase = RestorePhaseCompleted,
                         !.obj.status.completionTime = now,
                         !.obj.status.conditions =
                             SetCondition(@, ReadyCondition("RestoreCompleted", ""), now)],
                     f, 0)
            ELSE IF job.failed > 0
            THEN FailRestore(c1, f, "RestoreFailed", now, TRUE)
            ELSE Out(c1, Result(10, FALSE))

\* the switch with a finished Restore still polled like a running one
RestoreDispatch_PollsTerminal(c, f, now, haveBackup, haveRepository) ==
    CASE c.obj.status.phase = RestorePhasePending ->
             handlePending(c, f, now, haveBackup, haveRepository)
      [] c.obj.status.phase \in {RestorePhaseInProgress, RestorePhaseCompleted,
                                 RestorePhaseFailed} -> handleInProgress(c, f, now)
      [] OTHER -> Out(c, Result(0, FALSE))

\* the switch on status.phase that ends Reconcile
RestoreDispatch(c, f, now, haveBackup, haveRepository) ==
    CASE c.obj.status.phase = RestorePhasePending ->
             handlePending(c, f, now, haveBackup, haveRepository)
      [] c.obj.status.phase = RestorePhaseInProgress -> handleInProgress(c, f, now)
      [] OTHER -> Out(c, Result(0, FALSE))

\* "Add finalizer if missing"
AddFinalizer(c, f) ==
    IF ~c.obj.finalizer
    THEN ApiUpdate([c EXCEPT !.obj.finalizer = TRUE], "update" \in f)
    ELSE Step(TRUE, c)

\* the phase-initialising block as a slip would write it: Pending is set on the
\* object in memory and the status write is left out
InitPhase_NotPersisted(c, f) ==
    IF c.obj.status.phase = ""
    THEN Step(TRUE, [c EXCEPT !.obj.status.phase = RestorePhasePending])
    ELSE Step(TRUE, c)

\* the same block without its test of the phase: every Reconcile starts over
InitPhase_Always(c, f) ==
    ApiStatusUpdate([c EXCEPT !.obj.status.phase = RestorePhasePending],
                    "statusPending" \in f, RestorePhasePending)

\* "Initialize phase if not set": Pending is persisted before anything else
InitPhase(c, f) ==
    IF c.obj.status.phase = ""
    THEN ApiStatusUpdate([c EXCEPT !.obj.status.phase = RestorePhasePending],
                         "statusPending" \in f, RestorePhasePending)
    ELSE Step(TRUE, c)

\* ResticRestoreReconciler.Reconcile on the object `cached` that its Get returns
RestoreReconcile(cached, stored, js, f, now, haveBackup, haveRepository) ==
    LET c0 == [obj |-> cached, seen |-> cached, store |-> stored, jobs |-> js,
               calls |-> <<>>, created |-> 0]
    IN  IF "get" \in f THEN Out(Log(c0, Call("Get", FALSE, "")), Result(0, TRUE))
        ELSE IF ~cached.exists THEN Out(Log(c0, Call("Get", FALSE, "NotFound")), Result(0, FALSE))
        ELSE
        LET c1 == Log(c0, Call("Get", TRUE, ""))
        IN  IF c1.obj.deleting THEN handleDeletion(c1, f)
            ELSE
            LET a == AddFinalizer(c1, f)
            IN  IF ~a.ok THEN Out(a.c, Result(0, TRUE))
                ELSE
                LET b == InitPhase(a.c, f)
                IN  IF ~b.ok THEN Out(b.c, Result(0, TRUE))
                    ELSE RestoreDispatch(b.c, f, now, haveBackup, haveRepository)

----------------------------------------------------------------------------
(* SpecRestore: one Restore, its reconciler, and its environment *)

TheJobs == {j \in jobs : j.owner = restore.name}

ReconcileRestore ==
    \E f \in RestoreFaults :
        LET out == RestoreReconcile(restoreCache, restore, jobs, f, clock, backupObj, repoObj)
        IN  /\ jobCreates + out.c.created <= MaxJobCreates
            /\ restore' = out.c.store
            /\ jobs' = out.c.jobs
            /\ jobCreates' = jobCreates + out.c.created
            /\ calls' = out.c.calls
            /\ result' = out.res
            /\ UNCHANGED <<notifyVars, clock, restoreCache, backupObj, repoObj, backupVars, repoVars>>

\* the informer delivers the persisted object to the reconciler's cache
RestoreCacheSync ==
    /\ restoreCache # restore
    /\ restoreCache' = restore
    /\ Returned
    /\ UNCHANGED <<notifyVars, clock, restore, backupObj, repoObj, jobs, jobCreates, backupVars, repoVars>>

\* a user deletes the Restore: with a finalizer it is only marked
UserDeletesRestore ==
    /\ restore.exists /\ ~restore.deleting
    /\ restore' = IF restore.finalizer
                  THEN [restore EXCEPT !.deleting = TRUE]
                  ELSE [restore EXCEPT !.exists = FALSE]
    /\ Returned
    /\ UNCHANGED <<notifyVars, clock, restoreCache, backupObj, repoObj, jobs, jobCreates, backupVars, repoVars>>

UserDeletesBackup ==
    /\ backupObj
    /\ backupObj' = FALSE
    /\ Returned
    /\ UNCHANGED <<notifyVars, clock, restore, restoreCache, repoObj, jobs, jobCreates, backupVars, repoVars>>

UserDeletesRepository ==
    /\ repoObj
    /\ repoObj' = FALSE
    /\ Returned
    /\ UNCHANGED <<notifyVars, clock, restore, restoreCache, backupObj, jobs, jobCreates, backupVars, repoVars>>

\* the Job controller reports a succeeded pod
JobSucceeds ==
    \E j \in jobs :
        /\ j.succeeded = 0
        /\ jobs' = (jobs \ {j}) \cup {[j EXCEPT !.succeeded = 1]}
        /\ Returned
    /\ UNCHANGED <<notifyVars, clock, restore, restoreCache, backupObj, repoObj, jobCreates, backupVars, repoVars>>

\* the Job controller reports a failed pod
JobFails ==
    \E j \in jobs :
        /\ j.failed = 0
        /\ jobs' = (jobs \ {j}) \cup {[j EXCEPT !.failed = 1]}
        /\ Returned
    /\ UNCHANGED <<notifyVars, clock, restore, restoreCache, backupObj, repoObj, jobCreates, backupVars, repoVars>>

\* the Job is deleted: by a user, or by the garbage collector
JobDeleted ==
    \E j \in jobs :
        /\ jobs' = jobs \ {j}
        /\ Returned
    /\ UNCHANGED <<notifyVars, clock, restore, restoreCache, backupObj, repoObj, jobCreates, backupVars, repoVars>>

Tick ==
    /\ clock < MaxClock
    /\ clock' = clock + 1
    /\ Returned
    /\ UNCHANGED <<notifyVars, restoreVars, backupVars, repoVars>>

InitRestore ==
    /\ NotifyIdle
    /\ clock = 1
    /\ \E n \in RestoreNames, s \in RestoreSpecs : restore = NewRestore(n, s)
    /\ restoreCache = restore
    /\ backupObj \in BOOLEAN
    /\ repoObj \in BOOLEAN
    /\ jobs = {}
    /\ jobCreates = 0
    /\ BackupIdle
    /\ RepoIdle
    /\ calls = <<>>
    /\ result = NoResult

NextRestore ==
    \/ ReconcileRestore
    \/ RestoreCacheSync
    \/ UserDeletesRestore
    \/ UserDeletesBackup
    \/ UserDeletesRepository
    \/ JobSucceeds
    \/ JobFails
    \/ JobDeleted
    \/ Tick

SpecRestore == InitRestore /\ [][NextRestore]_vars

----------------------------------------------------------------------------
(* Properties of the Restore state machine *)

TerminalPhases == {RestorePhaseCompleted, RestorePhaseFailed}

\* the steps the phase may take
PhaseStep(p, q) ==
    \/ p = q /\ p \notin TerminalPhases
    \/ p = "" /\ q = RestorePhasePending
    \/ p = RestorePhasePending /\ q \in {RestorePhaseInProgress, RestorePhaseFailed}
    \/ p = RestorePhaseInProgress /\ q \in TerminalPhases

IsStatusWrite(call) == call.op = "StatusUpdate" /\ call.ok

\* the phases a Reconcile persisted, in the order of its status writes
PhasesWritten(cs) ==
    LET w == SelectSeq(cs, IsStatusWrite) IN [i \in 1..Len(w) |-> w[i].arg]

\* C1: the persisted phase of a Restore only moves along
\* "" -> Pending -> InProgress -> {Completed, Failed} or Pending -> Failed:
\* every status write of every Reconcile takes one of these steps from the
\* phase persisted before it, no other step changes the phase, and a
\* Completed or Failed phase is never written over.
C1_MonotonicPhase ==
    [][LET chain == <<restore.status.phase>> \o PhasesWritten(calls')
       IN  /\ \A i \in 1..(Len(chain) - 1) : PhaseStep(chain[i], chain[i + 1])
           /\ restore'.status.phase = chain[Len(chain)]]_vars

\* a Restore was taken to Completed by a Reconcile
C1_Witness ==
    /\ restore.status.phase = RestorePhaseCompleted
    /\ PhasesWritten(calls) = <<RestorePhaseCompleted>>

\* the Reconcile that has just returned read a Restore that is not being
\* deleted and whose phase is Completed or Failed
ReconciledTerminal ==
    /\ calls # <<>>
    /\ calls[1] = Call("Get", TRUE, "")
    /\ ~restoreCache.deleting
    /\ restoreCache.status.phase \in TerminalPhases

\* C2: a Reconcile of a Restore that is Completed or Failed and not under
\* deletion does nothing: beyond reading the Restore it makes no API call,
\* the persisted Restore and the Jobs are as before, and it returns neither
\* a requeue nor an error.
C2_TerminalNoOp ==
    [][(ReconciledTerminal' /\ restoreCache' = restoreCache) =>
           /\ Len(calls') = 1
           /\ restore' = restore
           /\ jobs' = jobs
           /\ jobCreates' = jobCreates
           /\ result' = Result(0, FALSE)]_vars

C2_Witness == ReconciledTerminal /\ restoreCache.status.phase = RestorePhaseFailed

FirstIndex(cs, ops) ==
    IF \E i \in 1..Len(cs) : cs[i].op \in ops
    THEN CHOOSE i \in 1..Len(cs) : cs[i].op \in ops /\ \A j \in 1..(i - 1) : cs[j].op \notin ops
    ELSE 0

\* C3: when the Restore read has an empty phase, a status write of
\* phase=Pending succeeds before the first Get of the Backup or Repository and
\* before the Create of the Job; and when that write fails, the Reconcile
\* creates no Job and returns the error.
C3_PendingCheckpoint ==
    (calls # <<>> /\ restoreCache.exists /\ restoreCache.status.phase = "") =>
        LET first == FirstIndex(calls, {"GetBackup", "GetRepository", "CreateJob"})
        IN  /\ first > 0 =>
                \E j \in 1..(first - 1) : calls[j] = Call("StatusUpdate", TRUE, RestorePhasePending)
            /\ first > 0 => restore.status.phase # ""
            /\ (\E j \in 1..Len(calls) : calls[j] = Call("StatusUpdate", FALSE, RestorePhasePending)) =>
                /\ first = 0
                /\ result = Result(0, TRUE)

\* the Reconcile of a new Restore created its Job
C3_Witness ==
    /\ calls # <<>>
    /\ restoreCache.status.phase = ""
    /\ \E i \in 1..Len(calls) : calls[i] = Call("CreateJob", TRUE, "")

\* the Reconcile that has just returned went through handlePending to its
\* closing status write with the references resolved and the Job present
PendingCompleted ==
    /\ calls # <<>>
    /\ \E i \in 1..Len(calls) : calls[i] = Call("GetRepository", TRUE, "")
    /\ \E i \in 1..Len(calls) : calls[i].op = "CreateJob" /\ calls[i].arg # "Error"
    /\ calls[Len(calls)].op = "StatusUpdate" /\ calls[Len(calls)].ok

\* the status an uninterrupted Reconcile of a Pending Restore leaves
PendingOutcome ==
    /\ restore.status.phase = RestorePhaseInProgress
    /\ restore.status.jobRef = [name |-> "resticrestore-" \o restore.name,
                                namespace |-> restore.namespace]
    /\ restore.status.restoredSnapshot = ResolveSnapshotID(restore.spec)
    /\ restore.status.startTime = clock
    /\ restore.status.completionTime = 0
    /\ IsReadyUnknown(restore.status.conditions)
    /\ result = Result(10, FALSE)

\* C4 as claimed: over the life of a Restore at most one Job is ever created
\* for it, whatever Reconciles were aborted, and a Reconcile that gets through
\* handlePending leaves the state an uninterrupted one leaves.
C4_AtMostOneJobEverCreated ==
    /\ jobCreates <= 1
    /\ Cardinality(jobs) <= 1
    /\ PendingCompleted => PendingOutcome

\* C4, amended: at no time is there more than one Job for a Restore, and it
\* is named resticrestore-<name>; a Reconcile after an aborted one, whose
\* Create is answered already-exists, goes on as if it had created the Job
\* and leaves the state an uninterrupted Reconcile leaves, with the Job there.
C4_RetryIsSafe ==
    /\ Cardinality(jobs) <= 1
    /\ \A j \in jobs : j.name = "resticrestore-" \o restore.name /\ j.namespace = restore.namespace
    /\ PendingCompleted =>
           /\ PendingOutcome
           /\ \E j \in jobs : j.name = restore.status.jobRef.name

\* a Reconcile found the Job of an aborted Reconcile and finished the step
C4_Witness ==
    /\ PendingCompleted
    /\ \E i \in 1..Len(calls) : calls[i] = Call("CreateJob", FALSE, "AlreadyExists")
    /\ jobCreates = 1

----------------------------------------------------------------------------
(* ResticBackup and GlobalRetentionPolicy controllers *)

errorRequeueInterval == 30

Namespaces == {"ns1", "ns2"}

\* the namespace of the Backup and of the policy
OwnNamespace == "ns1"

\* spec.schedule: a five-field cron expression, and one the parser rejects
ValidSchedule == "0 2 * * *"

InvalidSchedule == "invalid-schedule"

\* spec.repositoryRef.namespace: empty, or another namespace
RefNamespaces == {"", "ns2"}

ScheduledSpecs ==
    [repositoryRef : [name : {"repo"}, namespace : RefNamespaces],
     schedule : {ValidSchedule, InvalidSchedule},
     suspend : BOOLEAN]

\* the states of a ResticRepository a reference can meet: absent, present with
\* Ready=False, present with Ready=True
RepositoryStates(ns) ==
    {[exists |-> FALSE, url |-> "", conditions |-> <<>>]} \cup
    {[exists |-> TRUE, url |-> "s3:" \o ns, conditions |-> cs] :
        cs \in {<<NotReadyCondition("CredentialsNotFound", "")>>,
                <<ReadyCondition("RepositoryAccessible", "")>>}}

\* a Backup or a policy as a user has just created it
NewScheduled(name, spec) ==
    [exists |-> TRUE, name |-> name, namespace |-> OwnNamespace, generation |-> 1,
     deleting |-> FALSE, finalizer |-> FALSE, spec |-> spec,
     status |-> [conditions |-> <<>>, nextRun |-> 0, cronJobRef |-> NoRef,
                 observedGeneration |-> 0]]

\* a lookup that never leaves the object's own namespace
getRepository_OwnNamespace(obj, rs) == rs[obj.namespace]

\* getRepository: the reference's namespace, the object's own when it is empty
getRepository(obj, rs) ==
    LET ns == IF obj.spec.repositoryRef.namespace = ""
              THEN obj.namespace ELSE obj.spec.repositoryRef.namespace
    IN  rs[ns]

\* cron.Parser.Parse, then Schedule.Next(time.Now()): nil (0) for an expression
\* the parser rejects; the clock counts periods of the valid schedule
calculateNextBackup(obj, now) ==
    IF obj.spec.schedule = ValidSchedule THEN now + 1 ELSE 0

\* a generated name in place of the deterministic one
BackupCronJobName_Generated(name) == "resticbackup-" \o name \o "-" \o ToString(clock)

BackupCronJobName(name) == "resticbackup-" \o name

PolicyCronJobName(name) == "globalretention-" \o name

\* buildCronJob: what of the descriptor depends on the object and the repository
buildCronJob(obj, repository, name) ==
    [name |-> name, namespace |-> obj.namespace, owner |-> obj.name,
     spec |-> [schedule |-> obj.spec.schedule, suspend |-> obj.spec.suspend,
               repository |-> repository.url]]

\* the faults one Reconcile of a Backup or a policy can meet, as for the Restore
ScheduledFaults ==
    {{}, {"get"}, {"update"}, {"status"}, {"getRepository"}, {"getRepository", "status"},
     {"getCronJob"}, {"getCronJob", "status"}, {"cronWrite"}, {"cronWrite", "status"}}

\* the closing Status().Update of a branch, and its return
FinishScheduled(c, f, reason, requeueAfter) ==
    LET w == ApiStatusUpdate(c, "status" \in f, reason)
    IN  IF w.ok THEN Out(w.c, Result(requeueAfter, FALSE)) ELSE Out(w.c, Result(0, TRUE))

\* the branch returning ctrl.Result{} with no RequeueAfter
NotReadyScheduled_NoRequeue(c, f, reason, now, requeueAfter) ==
    FinishScheduled(
        [c EXCEPT !.obj.status.conditions = SetCondition(@, NotReadyCondition(reason, ""), now)],
        f, reason, 0)

\* a branch that sets Ready=False with a reason, writes the status and requeues
NotReadyScheduled(c, f, reason, now, requeueAfter) ==
    FinishScheduled(
        [c EXCEPT !.obj.status.conditions = SetCondition(@, NotReadyCondition(reason, ""), now)],
        f, reason, requeueAfter)

\* reconcileCronJob: Get by name, Create when absent, else Update
reconcileCronJob(c, cronJob, f) ==
    IF "getCronJob" \in f
    THEN Step(FALSE, Log(c, Call("GetCronJob", FALSE, "Error")))
    ELSE
    LET existing == {x \in c.cronJobs : x.name = cronJob.name /\ x.namespace = cronJob.namespace}
    IN  IF existing = {}
        THEN LET c1 == Log(c, Call("GetCronJob", FALSE, "NotFound"))
             IN  IF "cronWrite" \in f
                 THEN Step(FALSE, Log(c1, Call("CreateCronJob", FALSE, "")))
                 ELSE Step(TRUE, Log([c1 EXCEPT !.cronJobs = @ \cup {cronJob}],
                                     Call("CreateCronJob", TRUE, "")))
        ELSE LET e == CHOOSE x \in existing : TRUE
                 diff == IF e.spec = cronJob.spec THEN "unchanged" ELSE "changed"
                 c1 == Log(c, Call("GetCronJob", TRUE, ""))
             IN  IF "cronWrite" \in f
                 THEN Step(FALSE, Log(c1, Call("UpdateCronJob", FALSE, diff)))
                 ELSE Step(TRUE,
                           Log([c1 EXCEPT
                                   !.cronJobs = (@ \ {e}) \cup {[e EXCEPT !.spec = cronJob.spec]},
                                   !.obj.status.cronJobRef =
                                       [name |-> cronJob.name, namespace |-> cronJob.namespace]],
                               Call("UpdateCronJob", TRUE, diff)))

\* the start of a Reconcile without the test of the deletion timestamp
ScheduledStart_DeletionNotChecked(stored, cjs, f) ==
    LET c0 == [obj |-> stored, seen |-> stored, store |-> stored, cronJobs |-> cjs,
               calls |-> <<>>]
    IN  IF "get" \in f THEN [done |-> TRUE, out |-> Out(Log(c0, Call("Get", FALSE, "")), Result(0, TRUE))]
        ELSE IF ~stored.exists
        THEN [done |-> TRUE, out |-> Out(Log(c0, Call("Get", FALSE, "NotFound")), Result(0, FALSE))]
        ELSE
        LET c1 == Log(c0, Call("Get", TRUE, ""))
            a == AddFinalizer(c1, f)
        IN  IF ~a.ok THEN [done |-> TRUE, out |-> Out(a.c, Result(0, TRUE))]
            ELSE [done |-> FALSE, out |-> Out(a.c, NoResult)]

\* the start of a Reconcile: Get, deletion, finalizer
ScheduledStart(stored, cjs, f) ==
    LET c0 == [obj |-> stored, seen |-> stored, store |-> stored, cronJobs |-> cjs,
               calls |-> <<>>]
    IN  IF "get" \in f THEN [done |-> TRUE, out |-> Out(Log(c0, Call("Get", FALSE, "")), Result(0, TRUE))]
        ELSE IF ~stored.exists
        THEN [done |-> TRUE, out |-> Out(Log(c0, Call("Get", FALSE, "NotFound")), Result(0, FALSE))]
        ELSE
        LET c1 == Log(c0, Call("Get", TRUE, ""))
        IN  IF c1.obj.deleting THEN [done |-> TRUE, out |-> handleDeletion(c1, f)]
            ELSE
            LET a == AddFinalizer(c1, f)
            IN  IF ~a.ok THEN [done |-> TRUE, out |-> Out(a.c, Result(0, TRUE))]
                ELSE [done |-> FALSE, out |-> Out(a.c, NoResult)]

\* the gate on the repository with its readiness test left out
RepositoryGate_ExistsOnly(repository) == repository.exists

\* "Check repository is ready": the CronJob is reconciled only behind this
RepositoryGate(repository) ==
    repository.exists /\ IsConditionTrue(repository.conditions, "Ready")

\* ResticBackupReconciler.Reconcile
BackupReconcile(stored, cjs, rs, f, now) ==
    LET start == ScheduledStart(stored, cjs, f)
    IN  IF start.done THEN start.out
        ELSE
        LET c == start.out.c
            repository == getRepository(c.obj, rs)
            found == repository.exists /\ "getRepository" \notin f
        IN  IF ~found
            THEN NotReadyScheduled(Log(c, Call("GetRepository", FALSE, "")), f,
                                   "RepositoryNotFound", now, errorRequeueInterval)
            ELSE IF ~RepositoryGate(repository)
            THEN NotReadyScheduled(Log(c, Call("GetRepository", TRUE, "NotReady")), f,
                                   "RepositoryNotReady", now, 30)
            ELSE
            LET c2 == [Log(c, Call("GetRepository", TRUE, "Ready")) EXCEPT
                          !.obj.status.conditions =
                              SetCondition(@, Cond("RepositoryReady", "True",
                                                   "RepositoryAccessible", ""), now)]
                cj == reconcileCronJob(
                          c2, buildCronJob(c2.obj, repository, BackupCronJobName(c2.obj.name)), f)
            IN  IF ~cj.ok
                THEN NotReadyScheduled(cj.c, f, "CronJobFailed", now, errorRequeueInterval)
                ELSE
                LET next == calculateNextBackup(cj.c.obj, now)
                    o == [cj.c.obj EXCEPT
                             !.status.nextRun = IF next # 0 THEN next ELSE @,
                             !.status.conditions =
                                 SetCondition(@, ReadyCondition("BackupConfigured", ""), now),
                             !.status.observedGeneration = cj.c.obj.generation]
                IN  FinishScheduled([cj.c EXCEPT !.obj = o], f, "BackupConfigured", 300)

\* GlobalRetentionPolicyReconciler.Reconcile
PolicyReconcile(stored, cjs, rs, f, now) ==
    LET start == ScheduledStart(stored, cjs, f)
    IN  IF start.done THEN start.out
        ELSE
        LET c == start.out.c
            repository == getRepository(c.obj, rs)
            found == repository.exists /\ "getRepository" \notin f
        IN  IF ~found
            THEN NotReadyScheduled(Log(c, Call("GetRepository", FALSE, "")), f,
                                   "RepositoryNotFound", now, errorRequeueInterval)
            ELSE IF ~RepositoryGate(repository)
            THEN NotReadyScheduled(Log(c, Call("GetRepository", TRUE, "NotReady")), f,
                                   "RepositoryNotReady", now, 30)
            ELSE
            LET c2 == Log(c, Call("GetRepository", TRUE, "Ready"))
                cj == reconcileCronJob(
                          c2, buildCronJob(c2.obj, repository, PolicyCronJobName(c2.obj.name)), f)
            IN  IF ~cj.ok
                THEN NotReadyScheduled(cj.c, f, "CronJobFailed", now, errorRequeueInterval)
                ELSE
                LET next == calculateNextBackup(cj.c.obj, now)
                    o == [cj.c.obj EXCEPT
                             !.status.nextRun = IF next # 0 THEN next ELSE @,
                             !.status.conditions =
                                 SetCondition(@, ReadyCondition("RetentionPolicyConfigured", ""), now),
                             !.status.observedGeneration = cj.c.obj.generation]
                IN  FinishScheduled([cj.c EXCEPT !.obj = o], f, "RetentionPolicyConfigured", 300)

----------------------------------------------------------------------------
(* SpecBackup: a Backup or a policy, its reconciler, the repositories its  *)
(* reference can name, and the CronJobs                                    *)

ReconcileBackup ==
    /\ backup # NoObject
    /\ \E f \in ScheduledFaults :
        LET out == BackupReconcile(backup, cronJobs, repos, f, clock)
        IN  /\ backup' = out.c.store
            /\ cronJobs' = out.c.cronJobs
            /\ calls' = out.c.calls
            /\ result' = out.res
            /\ UNCHANGED <<notifyVars, clock, restoreVars, repoVars, policy, repos>>

ReconcilePolicy ==
    /\ policy # NoObject
    /\ \E f \in ScheduledFaults :
        LET out == PolicyReconcile(policy, cronJobs, repos, f, clock)
        IN  /\ policy' = out.c.store
            /\ cronJobs' = out.c.cronJobs
            /\ calls' = out.c.calls
            /\ result' = out.res
            /\ UNCHANGED <<notifyVars, clock, restoreVars, repoVars, backup, repos>>

\* the object a specification of this group is about
Scheduled == IF backup # NoObject THEN backup ELSE policy

\* a user edits the spec: suspend or the schedule
UserEditsSpec ==
    \E spec \in ScheduledSpecs :
        /\ Scheduled.exists /\ ~Scheduled.deleting
        /\ spec # Scheduled.spec
        /\ spec.repositoryRef = Scheduled.spec.repositoryRef
        /\ Scheduled.generation <= MaxEdits
        /\ LET o == [Scheduled EXCEPT !.spec = spec, !.generation = @ + 1]
           IN  IF backup # NoObject
               THEN backup' = o /\ UNCHANGED policy
               ELSE policy' = o /\ UNCHANGED backup
        /\ Returned
        /\ UNCHANGED <<notifyVars, clock, restoreVars, repoVars, repos, cronJobs>>

\* a user deletes the Backup or the policy: with a finalizer it is only marked
UserDeletesScheduled ==
    /\ Scheduled.exists /\ ~Scheduled.deleting
    /\ LET o == IF Scheduled.finalizer
                THEN [Scheduled EXCEPT !.deleting = TRUE]
                ELSE [Scheduled EXCEPT !.exists = FALSE]
       IN  IF backup # NoObject
           THEN backup' = o /\ UNCHANGED policy
           ELSE policy' = o /\ UNCHANGED backup
    /\ Returned
    /\ UNCHANGED <<notifyVars, clock, restoreVars, repoVars, repos, cronJobs>>

\* the namespace the reference of the Backup or the policy resolves to
ReferencedNamespace ==
    IF Scheduled.spec.repositoryRef.namespace = ""
    THEN OwnNamespace ELSE Scheduled.spec.repositoryRef.namespace

\* the referenced repository is created or deleted, or its reconciler changes
\* its Ready condition
RepositoryChanges ==
    \E ns \in {ReferencedNamespace} : \E r \in RepositoryStates(ns) :
        /\ r # repos[ns]
        /\ repos' = [repos EXCEPT ![ns] = r]
        /\ Returned
        /\ UNCHANGED <<notifyVars, clock, restoreVars, repoVars, backup, policy, cronJobs>>

\* a CronJob is deleted: by a user, or by the garbage collector once its owner is gone
CronJobDeleted ==
    \E cj \in cronJobs :
        /\ cronJobs' = cronJobs \ {cj}
        /\ Returned
        /\ UNCHANGED <<notifyVars, clock, restoreVars, repoVars, backup, policy, repos>>

InitBackup ==
    /\ NotifyIdle
    /\ clock = 1
    /\ RestoreIdle
    /\ \E spec \in ScheduledSpecs :
        \/ backup = NewScheduled("b1", spec) /\ policy = NoObject
        \/ policy = NewScheduled("p1", spec) /\ backup = NoObject
    /\ repos \in [Namespaces -> UNION {RepositoryStates(ns) : ns \in Namespaces}]
    /\ \A ns \in Namespaces : repos[ns] \in RepositoryStates(ns)
    \* the other namespace holds a Ready repository of the same name
    /\ \A ns \in Namespaces \ {ReferencedNamespace} :
           repos[ns].exists /\ IsConditionTrue(repos[ns].conditions, "Ready")
    /\ cronJobs = {}
    /\ RepoIdle
    /\ calls = <<>>
    /\ result = NoResult

NextBackup ==
    \/ ReconcileBackup
    \/ ReconcilePolicy
    \/ UserEditsSpec
    \/ UserDeletesScheduled
    \/ RepositoryChanges
    \/ CronJobDeleted

SpecBackup == InitBackup /\ [][NextBackup]_vars

----------------------------------------------------------------------------
(* Claims about the ResticBackup and GlobalRetentionPolicy reconcilers *)

\* the operations on the generated CronJob
CronJobOps == {"GetCronJob", "CreateCronJob", "UpdateCronJob"}

CronJobWrites == {"CreateCronJob", "UpdateCronJob"}

\* the Reconcile that has just returned made this call
Called(cs, ops) == \E i \in 1..Len(cs) : cs[i].op \in ops

\* the conditions hold Ready=False with this reason
ReadyFalse(conds, reason) ==
    \E i \in 1..Len(conds) :
        conds[i].type = "Ready" /\ conds[i].status = "False" /\ conds[i].reason = reason

\* the referenced repository, as the store holds it
ReferencedRepository == repos[ReferencedNamespace]

RepositoryMissing == ~ReferencedRepository.exists

RepositoryUnready ==
    /\ ReferencedRepository.exists
    /\ ~\E i \in 1..Len(ReferencedRepository.conditions) :
           /\ ReferencedRepository.conditions[i].type = "Ready"
           /\ ReferencedRepository.conditions[i].status = "True"

\* a Reconcile that came to look the repository up while it was missing or unready
C5_Step(cs) ==
    LET g == cs[FirstIndex(cs, {"GetRepository"})]
        last == cs[Len(cs)]
        reason == IF RepositoryUnready /\ g.ok
                  THEN "RepositoryNotReady" ELSE "RepositoryNotFound"
    IN  /\ cronJobs' = cronJobs
        /\ ~Called(cs, CronJobOps)
        /\ last.op = "StatusUpdate"
        /\ IF last.ok
           THEN /\ ReadyFalse(Scheduled'.status.conditions, reason)
                /\ result' = Result(30, FALSE)
           ELSE /\ Scheduled'.status = Scheduled.status
                /\ result'.err

\* C5: a Backup or policy Reconcile that finds the referenced repository missing
\* persists Ready=False/RepositoryNotFound, one that finds it present without
\* Ready=True persists Ready=False/RepositoryNotReady; neither reads, creates nor
\* updates the CronJob, and both return a requeue after 30 seconds (the error of
\* the status write when that write fails)
C5_RepositoryGating ==
    [][(Called(calls', {"GetRepository"}) /\ (RepositoryMissing \/ RepositoryUnready))
         => C5_Step(calls')]_vars

\* a Reconcile found the repository present but not Ready while the CronJob was
\* there, said so in the status and asked for a requeue after 30 seconds
C5_Witness ==
    /\ \E i \in 1..Len(calls) : calls[i] = Call("GetRepository", TRUE, "NotReady")
    /\ ReadyFalse(Scheduled.status.conditions, "RepositoryNotReady")
    /\ result = Result(30, FALSE)
    /\ cronJobs # {}

\* C6: once a Backup Reconcile has found the referenced repository missing or
\* without Ready=True, no generated backup CronJob is left active (present and
\* unsuspended)
C6_NoActiveCronJobAgainstUnreadyRepository ==
    (/\ backup # NoObject
     /\ Called(calls, {"GetRepository"})
     /\ RepositoryMissing \/ RepositoryUnready)
        => \A cj \in cronJobs : cj.spec.suspend

\* C7: a Reconcile writes the spec of the existing CronJob only when it differs
\* from the one it has built; a second Reconcile without a spec change issues
\* no update
C7_DiffBeforeWrite ==
    \A i \in 1..Len(calls) : calls[i].op = "UpdateCronJob" => calls[i].arg = "changed"

\* the CronJobs generated for the Backup
BackupCronJobs == {cj \in cronJobs : cj.owner = backup.name}

\* the Reconcile that has just returned configured the Backup: Ready=True
\* persisted, requeue after five minutes
BackupConfigured ==
    /\ backup # NoObject
    /\ calls # <<>>
    /\ calls[Len(calls)] = Call("StatusUpdate", TRUE, "BackupConfigured")
    /\ result = Result(300, FALSE)

\* C8: a Backup never has more than one generated CronJob, and after a
\* Reconcile that configured it there is exactly one, named
\* resticbackup-<backup name>, in the namespace of the Backup
C8_OneCronJobPerBackup ==
    backup # NoObject =>
        /\ Cardinality(BackupCronJobs) <= 1
        /\ BackupConfigured =>
               \E cj \in cronJobs :
                   /\ BackupCronJobs = {cj}
                   /\ cj.name = "resticbackup-" \o backup.name
                   /\ cj.namespace = backup.namespace

\* a repeated Reconcile found the CronJob of the Backup and left it the only one
C8_Witness ==
    /\ BackupConfigured
    /\ \E i \in 1..Len(calls) : calls[i].op = "UpdateCronJob" /\ calls[i].ok
    /\ Cardinality(BackupCronJobs) = 1

----------------------------------------------------------------------------
(* ResticRepository controller: the text of a failed check, and the age of *)
(* the lock in it. A text is a sequence of characters; the phrase          *)
(* strings.Contains looks for is one element of it. Durations are counted  *)
(* in milliseconds.                                                        *)

Millisecond == 1

Second == 1000

Minute == 60000

Hour == 3600000

DigitSeq == <<"0", "1", "2", "3", "4", "5", "6", "7", "8", "9">>

DigitChars == {DigitSeq[i] : i \in 1..10}

DigitValue(ch) == (CHOOSE i \in 1..10 : DigitSeq[i] = ch) - 1

\* strconv of a natural number
RECURSIVE FormatNat(_)
FormatNat(n) ==
    IF n < 10 THEN <<DigitSeq[n + 1]>>
    ELSE FormatNat(n \div 10) \o <<DigitSeq[(n % 10) + 1]>>

\* the fraction of a second, three digits with the trailing zeros dropped
FormatFraction(ms) ==
    IF ms = 0 THEN <<>>
    ELSE LET d == <<DigitSeq[(ms \div 100) + 1], DigitSeq[((ms \div 10) % 10) + 1],
                    DigitSeq[(ms % 10) + 1]>>
             n == IF ms % 100 = 0 THEN 1 ELSE IF ms % 10 = 0 THEN 2 ELSE 3
         IN  <<".">> \o SubSeq(d, 1, n)

\* time.Duration.String(), as the tool prints the age of a lock: "45m0s",
\* "1h0m0s", "29m59.999s", "500ms", "0s"
FormatDuration(d) ==
    IF d = 0 THEN <<"0", "s">>
    ELSE IF d < Second THEN FormatNat(d) \o <<"m", "s">>
    ELSE LET h == d \div Hour
             m == (d \div Minute) % 60
             sec == (d % Minute) \div Second
         IN  (IF h > 0 THEN FormatNat(h) \o <<"h">> ELSE <<>>) \o
             (IF d \div Minute > 0 THEN FormatNat(m) \o <<"m">> ELSE <<>>) \o
             FormatNat(sec) \o FormatFraction(d % Second) \o <<"s">>

\* the first index from i on whose character is not in the set
RECURSIVE Span(_, _, _)
Span(t, i, set) ==
    IF i <= Len(t) /\ t[i] \in set THEN Span(t, i + 1, set) ELSE i

\* t continues at i with the literal lit
HasAt(t, i, lit) ==
    i + Len(lit) - 1 <= Len(t) /\ SubSeq(t, i, i + Len(lit) - 1) = lit

\* (\d+h)? and (\d+m)?: the positions after the optional group, from those in P
AfterOptional(t, P, letter) ==
    P \cup {Span(t, p, DigitChars) + 1 : p \in
               {q \in P : Span(t, q, DigitChars) > q
                          /\ HasAt(t, Span(t, q, DigitChars), <<letter>>)}}

\* [\d.]+ : the positions after one or more digits or dots, from those in P
AfterNumber(t, P) ==
    UNION {(p + 1)..Span(t, p, DigitChars \cup {"."}) : p \in P}

AgoSuffix == <<" ", "a", "g", "o", ")">>

\* where a match of lockAgeRegex that starts at i ends: 0 when there is none
MatchEnd(t, i) ==
    IF ~HasAt(t, i, <<"(">>) THEN 0
    ELSE LET P == AfterNumber(t, AfterOptional(t, AfterOptional(t, {i + 1}, "h"), "m"))
             E == {p \in P : HasAt(t, p, <<"s">> \o AgoSuffix)}
         IN  IF E = {} THEN 0
             ELSE (CHOOSE p \in E : \A q \in E : q <= p) + Len(AgoSuffix)

\* lockAgeRegex.FindString: the leftmost match, <<>> when there is none
FindString(t) ==
    LET starts == {i \in 1..Len(t) : MatchEnd(t, i) # 0}
    IN  IF starts = {} THEN <<>>
        ELSE LET i == CHOOSE k \in starts : \A j \in starts : k <= j
             IN  SubSeq(t, i, MatchEnd(t, i))

TrimPrefix(t, lit) ==
    IF HasAt(t, 1, lit) THEN SubSeq(t, Len(lit) + 1, Len(t)) ELSE t

TrimSuffix(t, lit) ==
    IF Len(lit) <= Len(t) /\ SubSeq(t, Len(t) - Len(lit) + 1, Len(t)) = lit
    THEN SubSeq(t, 1, Len(t) - Len(lit)) ELSE t

\* leadingInt: the value of the digits t[i..j]
RECURSIVE LeadingInt(_, _, _)
LeadingInt(t, i, j) ==
    IF j < i THEN 0 ELSE LeadingInt(t, i, j - 1) * 10 + DigitValue(t[j])

\* leadingFraction: the digits t[i..j] after the point, in thousandths
LeadingFraction(t, i, j) ==
    LET d(k) == IF i + k <= j THEN DigitValue(t[i + k]) ELSE 0
    IN  d(0) * 100 + d(1) * 10 + d(2)

\* unitMap, for the units a millisecond can count
UnitOf(u) ==
    IF u = <<"h">> THEN Hour
    ELSE IF u = <<"m">> THEN Minute
    ELSE IF u = <<"s">> THEN Second
    ELSE IF u = <<"m", "s">> THEN Millisecond
    ELSE 0

ParseError == [ok |-> FALSE, d |-> 0]

\* the unit of a term runs up to the next digit or point
RECURSIVE SpanUnit(_, _)
SpanUnit(t, i) ==
    IF i <= Len(t) /\ t[i] \notin DigitChars \cup {"."} THEN SpanUnit(t, i + 1) ELSE i

\* the loop of time.ParseDuration: a number, an optional fraction, a unit
RECURSIVE ParseTerms(_, _, _)
ParseTerms(t, i, acc) ==
    IF i > Len(t) THEN [ok |-> TRUE, d |-> acc]
    ELSE LET a == Span(t, i, DigitChars)
             pre == a > i
             dot == HasAt(t, a, <<".">>)
             b == IF dot THEN Span(t, a + 1, DigitChars) ELSE a
             post == dot /\ b > a + 1
             u == SpanUnit(t, b)
             unit == UnitOf(SubSeq(t, b, u - 1))
         IN  IF ~(pre \/ post) \/ unit = 0 THEN ParseError
             ELSE ParseTerms(t, u, acc + LeadingInt(t, i, a - 1) * unit
                                       + (LeadingFraction(t, a + 1, b - 1) * unit) \div 1000)

\* time.ParseDuration
ParseDuration(t) ==
    IF t = <<"0">> THEN [ok |-> TRUE, d |-> 0]
    ELSE IF t = <<>> THEN ParseError
    ELSE ParseTerms(t, 1, 0)

\* the age is never read from the text
parseLockAge_Unparsed(errMsg) == 0

\* a text whose age cannot be read gives the age of a day
parseLockAge_UnreadIsOld(errMsg) ==
    LET match == FindString(errMsg)
    IN  IF match = <<>> THEN 24 * Hour
        ELSE LET duration == ParseDuration(TrimSuffix(TrimPrefix(match, <<"(">>), AgoSuffix))
             IN  IF ~duration.ok THEN 24 * Hour ELSE duration.d

\* parseLockAge: 0 when the text holds no age or the age does not parse
parseLockAge(errMsg) ==
    LET match == FindString(errMsg)
    IN  IF match = <<>> THEN 0
        ELSE LET duration == ParseDuration(TrimSuffix(TrimPrefix(match, <<"(">>), AgoSuffix))
             IN  IF ~duration.ok THEN 0 ELSE duration.d

----------------------------------------------------------------------------
(* ResticRepository controller *)

defaultRequeueInterval == 3600

DefaultStaleLockThreshold == 1800000

\* --stale-lock-threshold: not set (0), or the hour of the installation guide
StaleLockThresholds == {0, Hour}

\* "repository is already locked", the phrase the reconciler looks for
LockedPhrase == "repository is already locked"

\* " (UID 0) at 21:32 ", what stands between the phrase and the age
LockedBy == <<" ", "(", "U", "I", "D", " ", "0", ")", " ", "a", "t", " ", "2", "1", ":", "3", "2", " ">>

\* the text of a check that met a lock, its age as the text gives it
LockedText(age) == <<LockedPhrase>> \o LockedBy \o <<"(">> \o age \o AgoSuffix

\* the age of the lock of a failed check
LockAges ==
    {500 * Millisecond, DefaultStaleLockThreshold - 1, DefaultStaleLockThreshold,
     45 * Minute, Hour - 1, Hour}

\* ages as the tool does not print them: minutes without seconds, two points
MalformedAges == {<<"4", "5", "m">>, <<"1", ".", "2", ".", "3", "s">>}

\* what a failed check can say
CheckErrors ==
    {<<"unable to open config file">>, <<LockedPhrase>> \o LockedBy}
        \cup {LockedText(FormatDuration(d)) : d \in LockAges}
        \cup {LockedText(a) : a \in MalformedAges}

\* what a retried check can say
RetryErrors ==
    {<<"unable to open config file">>, LockedText(FormatDuration(Hour))}

\* what the executor and the store do during one Reconcile: the outcome of the
\* check, of the unlock, of the retried check, of init and of stats, and the
\* calls of the API that fail
ExecutorPlans ==
    [check : {<<>>} \cup CheckErrors, unlock : BOOLEAN, retry : {<<>>} \cup RetryErrors,
     init : BOOLEAN, stats : BOOLEAN, faults : {{}, {"status"}}]
        \cup {[check |-> <<>>, unlock |-> TRUE, retry |-> <<>>, init |-> TRUE, stats |-> TRUE,
               faults |-> f] : f \in {{"get"}, {"getSecret"}, {"statsStatus"}}}

\* parseLockAge of each text a check can return, computed once
LockAgeOf == [t \in CheckErrors \cup RetryErrors |-> parseLockAge(t)]

\* strings.Contains
Contains(errStr, phrase) == \E i \in 1..Len(errStr) : errStr[i] = phrase

\* the states of the credentials Secret
SecretStates == {"absent", "nopassword", "ok"}

\* getCredentials that asks only for the Secret, not for the key in it
getCredentials_AnySecret(sec, f) == sec # "absent" /\ "getSecret" \notin f

\* getCredentials: the Secret is there and holds RESTIC_PASSWORD
getCredentials(sec, f) == sec = "ok" /\ "getSecret" \notin f

\* getStaleLockThreshold
getStaleLockThreshold(configured) ==
    IF configured > 0 THEN configured ELSE DefaultStaleLockThreshold

\* a lock is stale only when it is older than the threshold
IsStale_Older(lockAge, threshold) == lockAge > threshold

\* "Only remove locks that are stale": the comparison of the age with the threshold
IsStale(lockAge, threshold) == lockAge >= threshold

\* a Repository as a user has just created it; no code of the reconciler
\* touches metadata.finalizers
NewRepository ==
    [exists |-> TRUE, name |-> "repo", generation |-> 1, finalizer |-> FALSE,
     status |-> [conditions |-> <<>>, observedGeneration |-> 0, statistics |-> FALSE]]

\* the branch with a finalizer registered through an Update before the status
\* is written
NotReadyRepositoryWith_AddsFinalizer(c, f, reason, message, now) ==
    LET s == [c.store EXCEPT !.finalizer = TRUE]
        c1 == Log([c EXCEPT !.store = s, !.seen = s, !.obj.finalizer = TRUE],
                  Call("Update", TRUE, ""))
    IN  FinishScheduled(
            [c1 EXCEPT !.obj.status.conditions =
                           SetCondition(@, NotReadyCondition(reason, message), now)],
            f, reason, errorRequeueInterval)

\* a branch that sets Ready=False with a reason and a message, writes the
\* status and asks for a requeue after errorRequeueInterval
NotReadyRepositoryWith(c, f, reason, message, now) ==
    FinishScheduled(
        [c EXCEPT !.obj.status.conditions =
                      SetCondition(@, NotReadyCondition(reason, message), now)],
        f, reason, errorRequeueInterval)

\* the same, where the message is the text of an error
NotReadyRepository(c, f, reason, now) == NotReadyRepositoryWith(c, f, reason, "", now)

\* the message of a fresh lock without the threshold
LockedMessage_AgeOnly(lockAge, threshold) ==
    <<"Repository is locked by another operation (lock age: ">>
        \o FormatDuration(lockAge) \o <<")">>

\* fmt.Sprintf("Repository is locked by another operation (lock age: %s,
\* threshold: %s)", lockAge, threshold)
LockedMessage(lockAge, threshold) ==
    <<"Repository is locked by another operation (lock age: ">>
        \o FormatDuration(lockAge) \o <<", threshold: ">>
        \o FormatDuration(threshold) \o <<")">>

\* executor.Check, as the plan has it answer
ExecCheck(c, answer) == Log(c, Call("Check", answer = <<>>, answer))

\* the statistics are read first, and Ready=True is written with them
RepositoryAccessible_StatsFirst(c, plan, now) ==
    LET c1 == Log(c, Call("Stats", plan.stats, ""))
        o == [c1.obj EXCEPT
                 !.status.conditions =
                     SetCondition(@, ReadyCondition("RepositoryAccessible", ""), now),
                 !.status.observedGeneration = c.obj.generation,
                 !.status.statistics = plan.stats]
    IN  IF ~plan.stats THEN Out(c1, Result(0, TRUE))
        ELSE FinishScheduled([c1 EXCEPT !.obj = o], plan.faults, "RepositoryAccessible",
                             defaultRequeueInterval)

\* the end of Reconcile once the repository is accessible: Ready=True is
\* written, then the statistics are read and written
RepositoryAccessible(c, plan, now) ==
    LET o == [c.obj EXCEPT
                 !.status.conditions =
                     SetCondition(@, ReadyCondition("RepositoryAccessible", ""), now),
                 !.status.observedGeneration = c.obj.generation]
        w == ApiStatusUpdate([c EXCEPT !.obj = o], "status" \in plan.faults,
                             "RepositoryAccessible")
    IN  IF ~w.ok THEN Out(w.c, Result(0, TRUE))
        ELSE LET c1 == Log(w.c, Call("Stats", plan.stats, ""))
             IN  IF ~plan.stats THEN Out(c1, Result(defaultRequeueInterval, FALSE))
                 ELSE LET w2 == ApiStatusUpdate([c1 EXCEPT !.obj.status.statistics = TRUE],
                                                "statsStatus" \in plan.faults, "Statistics")
                      IN  IF ~w2.ok THEN Out(w2.c, Result(0, TRUE))
                          ELSE Out(w2.c, Result(defaultRequeueInterval, FALSE))

\* init is tried, and its failure does not stop the Repository from being
\* marked Ready
InitIfFailing_IgnoresInit(c, err, plan, now) ==
    IF err = <<>> THEN RepositoryAccessible(c, plan, now)
    ELSE RepositoryAccessible(Log(c, Call("Init", plan.init, "")), plan, now)

\* "If still failing (not a lock issue, or lock removal didn't help), try to
\* initialize"
InitIfFailing(c, err, plan, now) ==
    IF err = <<>> THEN RepositoryAccessible(c, plan, now)
    ELSE LET c1 == Log(c, Call("Init", plan.init, ""))
         IN  IF ~plan.init
             THEN NotReadyRepository(c1, plan.faults, "InitializationFailed", now)
             ELSE RepositoryAccessible(c1, plan, now)

\* Reconcile that goes on to init when the unlock has failed
RepositoryReconcileOn_UnlockFailureGoesOn(cached, stored, sec, configured, plan, now) ==
    LET f == plan.faults
        c0 == [obj |-> cached, seen |-> cached, store |-> stored, calls |-> <<>>]
    IN  IF "get" \in f THEN Out(Log(c0, Call("Get", FALSE, "")), Result(0, TRUE))
        ELSE IF ~cached.exists
        THEN Out(Log(c0, Call("Get", FALSE, "NotFound")), Result(0, FALSE))
        ELSE
        LET c1 == Log(c0, Call("Get", TRUE, ""))
        IN  IF ~getCredentials(sec, f)
            THEN NotReadyRepository(Log(c1, Call("GetSecret", FALSE, "")), f,
                                    "CredentialsNotFound", now)
            ELSE
            LET c2 == ExecCheck(Log(c1, Call("GetSecret", TRUE, "")), plan.check)
                errStr == plan.check
            IN  IF errStr # <<>> /\ Contains(errStr, LockedPhrase)
                THEN LET lockAge == LockAgeOf[errStr]
                         threshold == getStaleLockThreshold(configured)
                     IN  IF IsStale(lockAge, threshold)
                         THEN LET c3 == Log(c2, Call("Unlock", plan.unlock, ""))
                              IN  IF ~plan.unlock
                                  THEN InitIfFailing(c3, errStr, plan, now)
                                  ELSE InitIfFailing(ExecCheck(c3, plan.retry), plan.retry,
                                                     plan, now)
                         ELSE NotReadyRepositoryWith(c2, f, "RepositoryLocked",
                                                     LockedMessage(lockAge, threshold), now)
                ELSE InitIfFailing(c2, errStr, plan, now)

\* ResticRepositoryReconciler.Reconcile on the object `cached` that its Get
\* returns, while the store holds `stored`
RepositoryReconcileOn(cached, stored, sec, configured, plan, now) ==
    LET f == plan.faults
        c0 == [obj |-> cached, seen |-> cached, store |-> stored, calls |-> <<>>]
    IN  IF "get" \in f THEN Out(Log(c0, Call("Get", FALSE, "")), Result(0, TRUE))
        ELSE IF ~cached.exists
        THEN Out(Log(c0, Call("Get", FALSE, "NotFound")), Result(0, FALSE))
        ELSE
        LET c1 == Log(c0, Call("Get", TRUE, ""))
        IN  IF ~getCredentials(sec, f)
            THEN NotReadyRepository(Log(c1, Call("GetSecret", FALSE, "")), f,
                                    "CredentialsNotFound", now)
            ELSE
            LET c2 == ExecCheck(Log(c1, Call("GetSecret", TRUE, "")), plan.check)
                errStr == plan.check
            IN  IF errStr # <<>> /\ Contains(errStr, LockedPhrase)
                THEN LET lockAge == LockAgeOf[errStr]
                         threshold == getStaleLockThreshold(configured)
                     IN  IF IsStale(lockAge, threshold)
                         THEN LET c3 == Log(c2, Call("Unlock", plan.unlock, ""))
                              IN  IF ~plan.unlock
                                  THEN NotReadyRepository(c3, f, "UnlockFailed", now)
                                  ELSE InitIfFailing(ExecCheck(c3, plan.retry), plan.retry,
                                                     plan, now)
                         ELSE NotReadyRepositoryWith(c2, f, "RepositoryLocked",
                                                     LockedMessage(lockAge, threshold), now)
                ELSE InitIfFailing(c2, errStr, plan, now)

\* Reconcile when its Get returns the object as persisted
RepositoryReconcile(stored, sec, configured, plan, now) ==
    RepositoryReconcileOn(stored, stored, sec, configured, plan, now)

----------------------------------------------------------------------------
(* SpecRepo: a Repository, its credentials Secret, its reconciler and the  *)
(* executor                                                                *)

ReconcileRepository ==
    \E plan \in ExecutorPlans :
        LET out == RepositoryReconcile(resticRepository, secret, staleLockThreshold, plan, clock)
        IN  /\ resticRepository' = out.c.store
            /\ calls' = out.c.calls
            /\ result' = out.res
            /\ UNCHANGED <<notifyVars, clock, restoreVars, backupVars, repositoryCache, secret, staleLockThreshold>>

\* a user creates, strips or deletes the credentials Secret
SecretChanges ==
    \E sec \in SecretStates :
        /\ sec # secret
        /\ secret' = sec
        /\ Returned
        /\ UNCHANGED <<notifyVars, clock, restoreVars, backupVars, resticRepository, repositoryCache,
                     staleLockThreshold>>

\* a user deletes the Repository: no finalizer holds it
UserDeletesRepositoryObject ==
    /\ resticRepository.exists
    /\ resticRepository' = [resticRepository EXCEPT !.exists = FALSE]
    /\ Returned
    /\ UNCHANGED <<notifyVars, clock, restoreVars, backupVars, repositoryCache, secret, staleLockThreshold>>

InitRepo ==
    /\ NotifyIdle
    /\ clock = 1
    /\ RestoreIdle
    /\ BackupIdle
    /\ resticRepository = NewRepository
    /\ repositoryCache = NewRepository
    /\ secret \in SecretStates
    /\ staleLockThreshold \in StaleLockThresholds
    /\ calls = <<>>
    /\ result = NoResult

NextRepo ==
    \/ ReconcileRepository
    \/ SecretChanges
    \/ UserDeletesRepositoryObject
    \/ Tick

SpecRepo == InitRepo /\ [][NextRepo]_vars

----------------------------------------------------------------------------
(* Claims about the ResticRepository reconciler *)

\* the threshold in force: the configured one, thirty minutes when none is set
ThresholdInForce == IF staleLockThreshold > 0 THEN staleLockThreshold ELSE 30 * Minute

\* how often the Reconcile that has just returned made this call
CountCalls(cs, op) == Cardinality({i \in 1..Len(cs) : cs[i].op = op})

\* the Reconcile that has just returned began its checks with a failed check
\* that said this
FirstCheckSaid(text) ==
    /\ Called(calls, {"Check"})
    /\ calls[FirstIndex(calls, {"Check"})].arg = text

\* the call after the first check
AfterFirstCheck(k) == calls[FirstIndex(calls, {"Check"}) + k]

\* the lock was taken for active: Ready=False/RepositoryLocked is written, no
\* unlock
TreatedAsActive ==
    /\ ~Called(calls, {"Unlock"})
    /\ CountCalls(calls, "Check") = 1
    /\ AfterFirstCheck(1).op = "StatusUpdate" /\ AfterFirstCheck(1).arg = "RepositoryLocked"
    /\ IF AfterFirstCheck(1).ok
       THEN /\ ReadyFalse(resticRepository.status.conditions, "RepositoryLocked")
            /\ result = Result(30, FALSE)
       ELSE result.err

C9_WitnessBelow ==
    /\ FirstCheckSaid(LockedText(FormatDuration(ThresholdInForce - 1)))
    /\ ReadyFalse(resticRepository.status.conditions, "RepositoryLocked")
    /\ result = Result(30, FALSE)

\* unlock was called once, straight after the first check
UnlockedOnce ==
    /\ CountCalls(calls, "Unlock") = 1
    /\ AfterFirstCheck(1).op = "Unlock"

\* the check was retried once, straight after the unlock
RetriedOnce ==
    /\ CountCalls(calls, "Check") = 2
    /\ AfterFirstCheck(2).op = "Check"

ContainsText(t, sub) == \E i \in 1..Len(t) : HasAt(t, i, sub)

\* the message of the Ready condition of the Repository
ReadyMessage ==
    resticRepository.status.conditions[CondIndex(resticRepository.status.conditions, "Ready")].message

\* the texts of a locked check whose age parseLockAge reads below the threshold
FreshLockTexts ==
    {t \in CheckErrors : Contains(t, LockedPhrase) /\ parseLockAge(t) < ThresholdInForce}

\* C11: when the check fails on a lock whose parsed age is below the threshold,
\* that Reconcile calls neither unlock nor init (nor a second check), writes
\* Ready=False/RepositoryLocked with a message that holds the parsed age and
\* the threshold, and returns a requeue after 30 seconds (the error of the
\* status write when that write fails)
C11_FreshLockLeftAlone ==
    \A t \in FreshLockTexts :
        FirstCheckSaid(t) =>
            /\ ~Called(calls, {"Unlock", "Init", "Stats"})
            /\ TreatedAsActive
            /\ AfterFirstCheck(1).ok =>
                   /\ ContainsText(ReadyMessage, FormatDuration(parseLockAge(t)))
                   /\ ContainsText(ReadyMessage,
                                   <<", threshold: ">> \o FormatDuration(ThresholdInForce)
                                       \o <<")">>)

\* a check met a lock of 59m59.999s under a threshold of one hour and the
\* Repository was reported locked, with both durations in the message
C11_Witness ==
    /\ staleLockThreshold = Hour
    /\ FirstCheckSaid(LockedText(FormatDuration(Hour - 1)))
    /\ ReadyFalse(resticRepository.status.conditions, "RepositoryLocked")
    /\ ContainsText(ReadyMessage, FormatDuration(Hour - 1))
    /\ result = Result(30, FALSE)

\* the conditions hold Ready=True with this reason
ReadyTrue(conds, reason) ==
    \E i \in 1..Len(conds) :
        conds[i].type = "Ready" /\ conds[i].status = "True" /\ conds[i].reason = reason

\* the position of the stats call in the Reconcile that has just returned
StatsIndex == FirstIndex(calls, {"Stats"})

\* C12: Ready=True/RepositoryAccessible is written to the status before stats
\* is called, and when stats fails the Repository stays Ready=True, the
\* Reconcile returns no error and asks for a requeue after one hour
C12_ReadyBeforeStats ==
    Called(calls, {"Stats"}) =>
        /\ StatsIndex > 1
        /\ calls[StatsIndex - 1] = Call("StatusUpdate", TRUE, "RepositoryAccessible")
        /\ ReadyTrue(resticRepository.status.conditions, "RepositoryAccessible")
        /\ ~calls[StatsIndex].ok =>
               /\ StatsIndex = Len(calls)
               /\ result = Result(3600, FALSE)

\* stats failed after the Repository was marked Ready
C12_Witness ==
    /\ Called(calls, {"Stats"})
    /\ ~calls[StatsIndex].ok
    /\ ReadyTrue(resticRepository.status.conditions, "RepositoryAccessible")
    /\ result = Result(3600, FALSE)

\* the position of the last check of the Reconcile that has just returned
LastCheck == CHOOSE i \in 1..Len(calls) :
                 calls[i].op = "Check" /\ \A j \in (i + 1)..Len(calls) : calls[j].op # "Check"

\* the check failed for another reason than a lock, or failed again when it
\* was retried after the unlock of a stale lock
CheckStillFailing ==
    /\ Called(calls, {"Check"})
    /\ ~calls[LastCheck].ok
    /\ \/ ~Contains(calls[LastCheck].arg, LockedPhrase) /\ CountCalls(calls, "Check") = 1
       \/ /\ CountCalls(calls, "Check") = 2
          /\ calls[LastCheck - 1] = Call("Unlock", TRUE, "")

\* C13: when the check fails for a reason other than a lock, or fails again
\* after the unlock of a stale lock and the one retry, init is the next call;
\* when init fails too, Ready=False/InitializationFailed is written, the
\* Repository is not marked Ready and the Reconcile asks for a requeue after
\* 30 seconds (it returns the error of the status write when that write fails)
C13_InitAfterFailedCheck ==
    CheckStillFailing =>
        /\ LastCheck < Len(calls)
        /\ calls[LastCheck + 1].op = "Init"
        /\ ~calls[LastCheck + 1].ok =>
               /\ Len(calls) = LastCheck + 2
               /\ calls[LastCheck + 2].op = "StatusUpdate"
               /\ calls[LastCheck + 2].arg = "InitializationFailed"
               /\ IF calls[LastCheck + 2].ok
                  THEN /\ ReadyFalse(resticRepository.status.conditions, "InitializationFailed")
                       /\ result = Result(30, FALSE)
                  ELSE result.err

\* the check failed again after a stale lock was removed, init failed too and
\* the Repository was reported InitializationFailed
C13_Witness ==
    /\ CheckStillFailing
    /\ CountCalls(calls, "Check") = 2
    /\ calls[LastCheck + 1] = Call("Init", FALSE, "")
    /\ ReadyFalse(resticRepository.status.conditions, "InitializationFailed")
    /\ result = Result(30, FALSE)

\* the calls of the executor
ExecutorOps == {"Check", "Unlock", "Init", "Stats"}

\* C14: when the credentials Secret is missing or holds no RESTIC_PASSWORD,
\* the Reconcile of the Repository calls no operation of the executor, writes
\* Ready=False/CredentialsNotFound and asks for a requeue after 30 seconds (it
\* returns the error of the status write when that write fails)
C14_CredentialsNotFound ==
    (secret # "ok" /\ Called(calls, {"GetSecret"})) =>
        /\ ~Called(calls, ExecutorOps)
        /\ calls[Len(calls)].op = "StatusUpdate"
        /\ calls[Len(calls)].arg = "CredentialsNotFound"
        /\ IF calls[Len(calls)].ok
           THEN /\ ReadyFalse(resticRepository.status.conditions, "CredentialsNotFound")
                /\ result = Result(30, FALSE)
           ELSE result.err

\* a Repository whose Secret holds no RESTIC_PASSWORD was reported
\* CredentialsNotFound
C14_Witness ==
    /\ secret = "nopassword"
    /\ Called(calls, {"GetSecret"})
    /\ ReadyFalse(resticRepository.status.conditions, "CredentialsNotFound")
    /\ result = Result(30, FALSE)

----------------------------------------------------------------------------
(* SpecConditions: the condition list of one resource, here of a           *)
(* Repository, under SetCondition and RemoveCondition called with any      *)
(* condition at any time                                                   *)

ConditionTypes == {"Ready", "RepositoryReady", "Synced"}

ConditionStatuses == {"True", "False", "Unknown"}

\* reason and message: a reason, the same reason with another message, and
\* another reason
ConditionTexts == {<<"ReasonA", "">>, <<"ReasonA", "details">>, <<"ReasonB", "">>}

\* the conditions a caller can hand to SetCondition
NewConditions ==
    {Cond(t, st, rm[1], rm[2]) : t \in ConditionTypes, st \in ConditionStatuses,
                                 rm \in ConditionTexts}

\* the condition list of the resource
conditionList == resticRepository.status.conditions

ApplySetCondition ==
    \E condition \in NewConditions :
        /\ resticRepository' =
               [resticRepository EXCEPT
                   !.status.conditions = SetCondition(@, condition, clock)]
        /\ calls' = <<Call("SetCondition", TRUE, condition)>>
        /\ result' = NoResult
        /\ UNCHANGED <<notifyVars, clock, restoreVars, backupVars, repositoryCache, secret, staleLockThreshold>>

ApplyRemoveCondition ==
    \E type \in ConditionTypes :
        /\ resticRepository' =
               [resticRepository EXCEPT !.status.conditions = RemoveCondition(@, type)]
        /\ calls' = <<Call("RemoveCondition", TRUE, type)>>
        /\ result' = NoResult
        /\ UNCHANGED <<notifyVars, clock, restoreVars, backupVars, repositoryCache, secret, staleLockThreshold>>

InitConditions ==
    /\ NotifyIdle
    /\ clock = 1
    /\ RestoreIdle
    /\ BackupIdle
    /\ resticRepository = NewRepository
    /\ repositoryCache = NoObject
    /\ secret = "absent"
    /\ staleLockThreshold = 0
    /\ calls = <<>>
    /\ result = NoResult

NextConditions ==
    \/ ApplySetCondition
    \/ ApplyRemoveCondition
    \/ Tick

SpecConditions == InitConditions /\ [][NextConditions]_vars

----------------------------------------------------------------------------
(* Claims about internal/conditions *)

\* the number of conditions of a type in a list
CountType(conds, type) == Cardinality({i \in 1..Len(conds) : conds[i].type = type})

AtMostOnePerType(conds) == \A t \in ConditionTypes : CountType(conds, t) <= 1

\* the positions of the conditions of a type
Positions(conds, type) == {i \in 1..Len(conds) : conds[i].type = type}

\* the step is SetCondition called with this condition
IsSet(cs) == cs # <<>> /\ cs[1].op = "SetCondition"

\* a SetCondition step: an existing type is replaced where it stands, a new
\* type is appended, and all other conditions stay as they are
SetInPlaceOrAppended(old, new, condition) ==
    IF Positions(old, condition.type) # {}
    THEN /\ Len(new) = Len(old)
         /\ \A i \in 1..Len(old) :
                IF old[i].type = condition.type
                THEN /\ new[i].type = condition.type
                     /\ new[i].status = condition.status
                     /\ new[i].reason = condition.reason
                     /\ new[i].message = condition.message
                ELSE new[i] = old[i]
    ELSE /\ Len(new) = Len(old) + 1
         /\ SubSeq(new, 1, Len(old)) = old
         /\ new[Len(new)].type = condition.type
         /\ new[Len(new)].status = condition.status
         /\ new[Len(new)].reason = condition.reason
         /\ new[Len(new)].message = condition.message

\* C15: from a list without two conditions of one type, SetCondition and
\* RemoveCondition, in any sequence, leave at most one condition per type;
\* setting a type that is there replaces it in place, setting a new type
\* appends it
C15_OneConditionPerType ==
    [][/\ AtMostOnePerType(conditionList) => AtMostOnePerType(conditionList')
       /\ IsSet(calls') => SetInPlaceOrAppended(conditionList, conditionList', calls'[1].arg)]_vars

\* a type that was in the list with two others before it has been set again
\* and still stands once, in the second place of three
C15_Witness ==
    /\ IsSet(calls)
    /\ Len(conditionList) = 3
    /\ conditionList[2].type = calls[1].arg.type
    /\ conditionList[2].lastTransitionTime < clock
    /\ AtMostOnePerType(conditionList)

\* C16: SetCondition with the status the condition of that type already has
\* keeps its lastTransitionTime, also when reason or message change;
\* SetCondition with another status sets lastTransitionTime to the time of
\* the call
C16_TransitionTimeStability ==
    [][IsSet(calls') =>
          \A i \in Positions(conditionList, calls'[1].arg.type) :
              /\ conditionList'[i].reason = calls'[1].arg.reason
              /\ conditionList'[i].message = calls'[1].arg.message
              /\ IF conditionList[i].status = calls'[1].arg.status
                 THEN conditionList'[i].lastTransitionTime = conditionList[i].lastTransitionTime
                 ELSE conditionList'[i].lastTransitionTime = clock]_vars

\* a condition has been set with a new reason and its old status at a
\* later time, and shows the new reason with the earlier transition time
C16_Witness ==
    /\ IsSet(calls)
    /\ \E i \in 1..Len(conditionList) :
           /\ conditionList[i].type = calls[1].arg.type
           /\ conditionList[i].status = calls[1].arg.status
           /\ conditionList[i].reason = "ReasonA"
           /\ conditionList[i].message = "details"
           /\ conditionList[i].lastTransitionTime < clock

----------------------------------------------------------------------------
(* SpecRepoCache: the Repository reconciler reading through its cache,     *)
(* which can lag behind the store                                          *)

\* the plans of a repository that no lock guards
PlansWithoutLock ==
    {plan \in ExecutorPlans :
        /\ plan.check \in {<<>>, <<"unable to open config file">>}
        /\ plan.unlock
        /\ plan.retry = <<>>}

ReconcileRepositoryCached ==
    \E plan \in PlansWithoutLock :
        LET out == RepositoryReconcileOn(repositoryCache, resticRepository, secret,
                                         staleLockThreshold, plan, clock)
        IN  /\ resticRepository' = out.c.store
            /\ calls' = out.c.calls
            /\ result' = out.res
            /\ UNCHANGED <<notifyVars, clock, restoreVars, backupVars, repositoryCache, secret,
                           staleLockThreshold>>

\* the informer delivers the persisted object to the reconciler's cache
RepositoryCacheSync ==
    /\ repositoryCache # resticRepository
    /\ repositoryCache' = resticRepository
    /\ Returned
    /\ UNCHANGED <<notifyVars, clock, restoreVars, backupVars, resticRepository, secret,
                   staleLockThreshold>>

InitRepoCache ==
    /\ NotifyIdle
    /\ clock = 1
    /\ RestoreIdle
    /\ BackupIdle
    /\ resticRepository = NewRepository
    /\ repositoryCache = NewRepository
    /\ secret \in SecretStates
    /\ staleLockThreshold = 0
    /\ calls = <<>>
    /\ result = NoResult

NextRepoCache ==
    \/ ReconcileRepositoryCached
    \/ RepositoryCacheSync
    \/ SecretChanges
    \/ UserDeletesRepositoryObject
    \/ Tick

SpecRepoCache == InitRepoCache /\ [][NextRepoCache]_vars

----------------------------------------------------------------------------
(* Properties of the status writes *)

\* no condition type of `old` has an earlier lastTransitionTime in `new`
TransitionTimesKept(old, new) ==
    \A i \in 1..Len(old), j \in 1..Len(new) :
        old[i].type = new[j].type => old[i].lastTransitionTime <= new[j].lastTransitionTime

\* a status write of the calls was accepted
StatusWritten(cs) == \E i \in 1..Len(cs) : IsStatusWrite(cs[i])

\* C17: over the status writes to one Repository the lastTransitionTime of
\* each condition type never decreases, and the writes are applied in order:
\* the store changes the status only by a write made from the object as it is
\* persisted, and refuses every write made from an older copy
C17_OrderedStatusWrites ==
    [][/\ resticRepository.exists /\ resticRepository'.exists =>
              /\ TransitionTimesKept(resticRepository.status.conditions,
                                     resticRepository'.status.conditions)
              /\ resticRepository'.status # resticRepository.status =>
                     repositoryCache = resticRepository /\ StatusWritten(calls')
       /\ repositoryCache # resticRepository => ~StatusWritten(calls')]_vars

\* a Reconcile that read a copy with Ready=False since time 1 has had its
\* write refused by a store that holds Ready=True since time 2
C17_Witness ==
    /\ resticRepository.exists
    /\ repositoryCache # resticRepository
    /\ ReadyFalse(repositoryCache.status.conditions, "CredentialsNotFound")
    /\ GetCondition(repositoryCache.status.conditions, "Ready").lastTransitionTime = 1
    /\ ReadyTrue(resticRepository.status.conditions, "RepositoryAccessible")
    /\ GetCondition(resticRepository.status.conditions, "Ready").lastTransitionTime = 2
    /\ Called(calls, {"StatusUpdate"})
    /\ ~StatusWritten(calls)
    /\ calls[Len(calls)].arg = "CredentialsNotFound"

----------------------------------------------------------------------------
(* Properties of the failures of a Restore *)

\* the Reconcile that has just returned ran handlePending
ReconciledPending == Called(calls, {"GetBackup"})

\* the last call of the Reconcile that has just returned
LastCall == calls[Len(calls)]

\* the reasons of a Restore that failed on a missing reference
MissingReferenceReasons == {"BackupNotFound", "RepositoryNotFound"}

\* the Restore a Reconcile reads is Failed for a missing reference
FailedOnMissingReference(r) ==
    /\ r.exists
    /\ ~r.deleting
    /\ r.status.phase = RestorePhaseFailed
    /\ \E reason \in MissingReferenceReasons : ReadyFalse(r.status.conditions, reason)

\* C18: a Reconcile of a Pending Restore whose Backup, or the Repository
\* referred to through it, is missing creates no Job and ends with the status
\* write of phase Failed; once that write is accepted the Restore is Failed
\* with reason BackupNotFound or RepositoryNotFound and the Reconcile returns
\* neither a requeue nor an error (a refused write leaves the persisted
\* conditions as they are and returns its error).  A
\* later Reconcile that reads this Failed Restore does nothing and asks for
\* no requeue.
C18_MissingReferenceFails ==
    [][/\ (ReconciledPending' /\ (~backupObj \/ ~repoObj)) =>
              /\ ~Called(calls', {"CreateJob", "GetJob"})
              /\ jobs' = jobs
              /\ jobCreates' = jobCreates
              /\ LastCall'.op = "StatusUpdate"
              /\ LastCall'.arg = RestorePhaseFailed
              /\ IF LastCall'.ok
                 THEN /\ FailedOnMissingReference(restore')
                      /\ ReadyFalse(restore'.status.conditions,
                                    IF backupObj /\ calls'[Len(calls') - 1].op = "GetRepository"
                                    THEN "RepositoryNotFound" ELSE "BackupNotFound")
                      /\ result' = Result(0, FALSE)
                 ELSE /\ RestorePhaseFailed \notin
                             {PhasesWritten(calls')[i] : i \in 1..Len(PhasesWritten(calls'))}
                      /\ restore'.status.conditions = restore.status.conditions
                      /\ result'.err
       /\ (calls' # <<>> /\ calls'[1].ok /\ FailedOnMissingReference(restoreCache)) =>
              /\ Len(calls') = 1
              /\ restore' = restore
              /\ jobs' = jobs
              /\ result' = Result(0, FALSE)]_vars

\* a Pending Restore whose Backup is there and whose Repository is missing has
\* been failed by a Reconcile
C18_Witness ==
    /\ ReconciledPending
    /\ backupObj
    /\ ~repoObj
    /\ LastCall = Call("StatusUpdate", TRUE, RestorePhaseFailed)
    /\ ReadyFalse(restore.status.conditions, "RepositoryNotFound")
    /\ jobCreates = 0
    /\ result = Result(0, FALSE)

\* the Create of the Reconcile that has just returned
CreateCall == calls[FirstIndex(calls, {"CreateJob"})]

\* the Job of the Restore is in the store
RestoreJobExists ==
    \E j \in jobs : j.name = RestoreJobName(restore.name) /\ j.namespace = restore.namespace

\* C19: when the Create of the restore Job fails with an error other than
\* already-exists, the Reconcile ends with the status write of phase Failed
\* and, once that write is accepted, the Restore is Failed with reason
\* JobCreationFailed and nothing is requeued; when the Create answers
\* already-exists, or succeeds, the Reconcile ends with the status write of
\* phase InProgress and, once that is accepted, the Restore is InProgress
\* with the Job's name as jobRef and is polled after 10 seconds.  A refused
\* status write returns its error.
C19_JobCreationOutcome ==
    [][Called(calls', {"CreateJob"}) =>
          /\ LastCall'.op = "StatusUpdate"
          /\ ~LastCall'.ok => result'.err
          /\ IF CreateCall'.arg = "Error"
             THEN /\ LastCall'.arg = RestorePhaseFailed
                  /\ jobs' = jobs
                  /\ LastCall'.ok =>
                         /\ restore'.status.phase = RestorePhaseFailed
                         /\ ReadyFalse(restore'.status.conditions, "JobCreationFailed")
                         /\ result' = Result(0, FALSE)
             ELSE /\ LastCall'.arg = RestorePhaseInProgress
                  /\ RestoreJobExists'
                  /\ CreateCall'.arg = "AlreadyExists" => jobs' = jobs
                  /\ LastCall'.ok =>
                         /\ restore'.status.phase = RestorePhaseInProgress
                         /\ restore'.status.jobRef =
                                [name |-> RestoreJobName(restore.name),
                                 namespace |-> restore.namespace]
                         /\ result' = Result(10, FALSE)]_vars

\* a Create that answered already-exists was followed by the accepted write
\* of phase InProgress
C19_Witness ==
    /\ Called(calls, {"CreateJob"})
    /\ CreateCall = Call("CreateJob", FALSE, "AlreadyExists")
    /\ LastCall = Call("StatusUpdate", TRUE, RestorePhaseInProgress)
    /\ restore.status.phase = RestorePhaseInProgress
    /\ result = Result(10, FALSE)

\* the Job a Restore refers to is not in the store
ReferencedJobMissing(r) ==
    /\ r.status.jobRef # NoRef
    /\ ~\E j \in jobs : j.name = r.status.jobRef.name /\ j.namespace = r.status.jobRef.namespace

\* the Reconcile that has just returned read this InProgress Restore, not
\* under deletion, and its read of the Job did not fail for another reason
\* than the Job's absence
ReconciledInProgress(r) ==
    /\ calls # <<>>
    /\ calls[1] = Call("Get", TRUE, "")
    /\ r.exists
    /\ ~r.deleting
    /\ r.status.phase = RestorePhaseInProgress
    /\ Call("GetJob", FALSE, "") \notin {calls[i] : i \in 1..Len(calls)}

\* C20: a Reconcile of an InProgress Restore whose referenced Job does not
\* exist ends with the status write of phase Failed; once that write is
\* accepted the Restore is Failed with reason JobNotFound and the Reconcile
\* returns neither a requeue nor an error (a refused write returns its error)
C20_MissingJobFails ==
    [][(ReconciledInProgress(restoreCache)' /\ restoreCache' = restoreCache
            /\ ReferencedJobMissing(restoreCache)) =>
          /\ Call("GetJob", FALSE, "NotFound") \in {calls'[i] : i \in 1..Len(calls')}
          /\ ~Called(calls', {"CreateJob"})
          /\ jobs' = jobs
          /\ LastCall'.op = "StatusUpdate"
          /\ LastCall'.arg = RestorePhaseFailed
          /\ IF LastCall'.ok
             THEN /\ restore'.status.phase = RestorePhaseFailed
                  /\ ReadyFalse(restore'.status.conditions, "JobNotFound")
                  /\ result' = Result(0, FALSE)
             ELSE /\ restore' = restore
                  /\ result'.err]_vars

\* an InProgress Restore whose Job was deleted has been failed by a Reconcile
C20_Witness ==
    /\ ReconciledInProgress(restoreCache)
    /\ jobCreates > 0
    /\ jobs = {}
    /\ LastCall = Call("StatusUpdate", TRUE, RestorePhaseFailed)
    /\ restore.status.phase = RestorePhaseFailed
    /\ ReadyFalse(restore.status.conditions, "JobNotFound")
    /\ result = Result(0, FALSE)

----------------------------------------------------------------------------
(* Properties of the polling of the restore Job *)

\* the Job a Restore refers to, when it is in the store
ReferencedJobs(r) ==
    {j \in jobs : j.name = r.status.jobRef.name /\ j.namespace = r.status.jobRef.namespace}

\* the Reconcile of this step read an InProgress Restore and polled this Job
PolledJob(j) ==
    /\ ReconciledInProgress(restoreCache)'
    /\ restoreCache' = restoreCache
    /\ j \in ReferencedJobs(restoreCache)

\* the Reconcile of this step ended with the status write of `phase`; once
\* the write is accepted the Restore has that phase, the completion time of
\* the write and Ready with `status` and `reason`, and nothing is requeued; a
\* refused write leaves the Restore as persisted and returns its error
EndedAs(phase, status, reason) ==
    /\ LastCall'.op = "StatusUpdate"
    /\ LastCall'.arg = phase
    /\ IF LastCall'.ok
       THEN /\ restore'.status.phase = phase
            /\ restore'.status.completionTime = clock
            /\ GetCondition(restore'.status.conditions, "Ready").status = status
            /\ GetCondition(restore'.status.conditions, "Ready").reason = reason
            /\ result' = Result(0, FALSE)
       ELSE /\ restore' = restore
            /\ result'.err

\* C21 as stated: a polled Job with succeeded > 0 takes the InProgress
\* Restore to Completed with the completion time set and Ready=True, and a
\* polled Job with failed > 0 takes it to Failed with the completion time set
\* and Ready=False
C21_OutcomeReflectsJob ==
    [][\A j \in jobs :
          PolledJob(j) =>
              /\ j.succeeded > 0 => EndedAs(RestorePhaseCompleted, "True", "RestoreCompleted")
              /\ j.failed > 0 => EndedAs(RestorePhaseFailed, "False", "RestoreFailed")]_vars

\* C21, amended: a polled Job with succeeded > 0 takes the InProgress Restore
\* to Completed with the completion time set and Ready=True; a polled Job
\* with failed > 0 and no succeeded pod takes it to Failed with the
\* completion time set and Ready=False
C21_SucceededBeforeFailed ==
    [][\A j \in jobs :
          PolledJob(j) =>
              /\ j.succeeded > 0 => EndedAs(RestorePhaseCompleted, "True", "RestoreCompleted")
              /\ (j.failed > 0 /\ j.succeeded = 0) =>
                     EndedAs(RestorePhaseFailed, "False", "RestoreFailed")]_vars

\* a Job with a failed pod and no succeeded one has been polled, and the
\* Restore is Failed with its completion time set
C21_Witness ==
    /\ ReconciledInProgress(restoreCache)
    /\ \E j \in jobs : j.failed > 0 /\ j.succeeded = 0
    /\ LastCall = Call("StatusUpdate", TRUE, RestorePhaseFailed)
    /\ restore.status.phase = RestorePhaseFailed
    /\ restore.status.completionTime = clock
    /\ ReadyFalse(restore.status.conditions, "RestoreFailed")

\* C22: a Reconcile of an InProgress Restore whose Job has neither a
\* succeeded nor a failed pod writes nothing: the persisted Restore, its phase
\* and status included, and the Jobs are as before, and it asks for a requeue
\* after 10 seconds
C22_RunningJobIsPolled ==
    [][\A j \in jobs :
          (PolledJob(j) /\ j.succeeded = 0 /\ j.failed = 0) =>
              /\ ~Called(calls', {"Update", "StatusUpdate", "CreateJob"})
              /\ LastCall' = Call("GetJob", TRUE, "")
              /\ restore' = restore
              /\ jobs' = jobs
              /\ result' = Result(10, FALSE)]_vars

\* a running Job has been polled
C22_Witness ==
    /\ ReconciledInProgress(restoreCache)
    /\ restore = restoreCache
    /\ \E j \in ReferencedJobs(restore) : j.succeeded = 0 /\ j.failed = 0
    /\ LastCall = Call("GetJob", TRUE, "")
    /\ result = Result(10, FALSE)

----------------------------------------------------------------------------
(* Properties of the start of a restore *)

\* the status writes of the calls from position i on
StatusUpdatesFrom(cs, i) == {k \in i..Len(cs) : cs[k].op = "StatusUpdate"}

\* the snapshot token of a Restore: its explicit ID, otherwise "latest"
SnapshotToken(r) == IF r.spec.snapshotID # "" THEN r.spec.snapshotID ELSE "latest"

\* C23: a Reconcile of a Pending Restore whose Create of the Job succeeded
\* makes one status write after it, of phase InProgress; once accepted, the
\* persisted status has the Job's name and namespace as jobRef, the explicit
\* snapshot ID or else "latest" as restoredSnapshot, the time of the
\* Reconcile as startTime, phase InProgress and Ready=Unknown with reason
\* RestoreInProgress, none of which the status had before that write (a
\* refused write leaves them all as persisted and returns its error); the
\* Job created restores that snapshot
C23_StartRecordedInOneWrite ==
    [][Call("CreateJob", TRUE, "") \in {calls'[i] : i \in 1..Len(calls')} =>
          /\ StatusUpdatesFrom(calls', FirstIndex(calls', {"CreateJob"})) = {Len(calls')}
          /\ LastCall'.arg = RestorePhaseInProgress
          /\ \E j \in jobs' \ jobs :
                 /\ j.name = RestoreJobName(restore.name)
                 /\ j.snapshot = SnapshotToken(restore)
          /\ IF LastCall'.ok
             THEN /\ restore.status.jobRef = NoRef
                  /\ restore.status.startTime = 0
                  /\ restore.status.restoredSnapshot = ""
                  /\ restore'.status.phase = RestorePhaseInProgress
                  /\ restore'.status.jobRef =
                         [name |-> RestoreJobName(restore.name), namespace |-> restore.namespace]
                  /\ restore'.status.restoredSnapshot = SnapshotToken(restore)
                  /\ restore'.status.startTime = clock
                  /\ restore'.status.completionTime = 0
                  /\ GetCondition(restore'.status.conditions, "Ready").status = "Unknown"
                  /\ GetCondition(restore'.status.conditions, "Ready").reason = "RestoreInProgress"
                  /\ result' = Result(10, FALSE)
             ELSE /\ restore'.status.jobRef = restore.status.jobRef
                  /\ restore'.status.startTime = restore.status.startTime
                  /\ restore'.status.restoredSnapshot = restore.status.restoredSnapshot
                  /\ restore'.status.conditions = restore.status.conditions
                  /\ result'.err]_vars

\* the Job of a Restore with an explicit snapshot ID has been created and
\* the start recorded
C23_Witness ==
    /\ Call("CreateJob", TRUE, "") \in {calls[i] : i \in 1..Len(calls)}
    /\ LastCall = Call("StatusUpdate", TRUE, RestorePhaseInProgress)
    /\ restore.spec.snapshotID = "abc123"
    /\ restore.status.restoredSnapshot = "abc123"
    /\ restore.status.startTime = clock
    /\ restore.status.jobRef.name = RestoreJobName(restore.name)

----------------------------------------------------------------------------
(* Properties of the resolution of the repository reference *)

\* the lookup of the repository by the Reconcile that has just returned
RepositoryLookup == calls[FirstIndex(calls, {"GetRepository"})]

\* the CronJob of the Backup
BackupCronJob == {cj \in cronJobs : cj.name = BackupCronJobName(backup.name)}

\* C24: a Reconcile of a Backup whose repositoryRef names a namespace looks
\* the repository up in that namespace and not in the Backup's own: it finds
\* none when that namespace has none, tests the readiness of the one there,
\* and configures the CronJob it writes with the one there; with an empty
\* namespace in the reference the same holds of the Backup's own namespace
C24_CrossNamespaceResolution ==
    [][(backup # NoObject /\ Called(calls', {"GetRepository"})) =>
          LET named == backup.spec.repositoryRef.namespace
              there == IF named = "" THEN repos[backup.namespace] ELSE repos[named]
          IN  /\ RepositoryLookup'.ok => there.exists
              /\ ~there.exists => ReadyFalse(backup'.status.conditions, "RepositoryNotFound")
                                      \/ ~LastCall'.ok
              /\ RepositoryLookup'.arg = "Ready" <=>
                     (RepositoryLookup'.ok /\ IsConditionTrue(there.conditions, "Ready"))
              /\ Called(calls', CronJobWrites) /\ LastCall'.ok =>
                     \A cj \in BackupCronJob' : cj.spec.repository = there.url]_vars

\* a Backup that names namespace ns2 has been reconciled while its own
\* namespace held a Ready repository of the same name and ns2 held none: no
\* repository was found
C24_Witness ==
    /\ backup # NoObject
    /\ backup.exists
    /\ backup.namespace = "ns1"
    /\ backup.spec.repositoryRef.namespace = "ns2"
    /\ ~repos["ns2"].exists
    /\ IsConditionTrue(repos["ns1"].conditions, "Ready")
    /\ Called(calls, {"GetRepository"})
    /\ ~RepositoryLookup.ok
    /\ ReadyFalse(backup.status.conditions, "RepositoryNotFound")
    /\ LastCall = Call("StatusUpdate", TRUE, "RepositoryNotFound")

\* a Backup that names namespace ns2 has its CronJob configured with the
\* repository of ns2
C24_WitnessConfigured ==
    /\ backup # NoObject
    /\ backup.spec.repositoryRef.namespace = "ns2"
    /\ Called(calls, CronJobWrites)
    /\ \E cj \in BackupCronJob : cj.spec.repository = "s3:ns2"

----------------------------------------------------------------------------
(* GlobalRetentionPolicy: the retention script.  A text is a sequence of   *)
(* tokens: the fixed pieces of the script are one token each, a line ends  *)
(* with the token Newline.                                                 *)

Newline == "\n"

\* selector.tags: no tag, one, two, and a tag that holds a line break
RetentionTags ==
    {<<>>, <<<<"a">>>>, <<<<"b">>>>, <<<<"a">>, <<"b">>>>,
     <<<<"x", Newline, "restic prune">>>>}

\* selector.hostname
RetentionHostnames == {<<>>, <<"host1">>}

\* a nil *int32
NoKeep == -1

Keep(last, hourly, daily, weekly, monthly, yearly) ==
    [keepLast |-> last, keepHourly |-> hourly, keepDaily |-> daily,
     keepWeekly |-> weekly, keepMonthly |-> monthly, keepYearly |-> yearly]

\* retention: nothing set, keepLast 0, keepLast 5, keepDaily 7, every rule set
Retentions ==
    {Keep(NoKeep, NoKeep, NoKeep, NoKeep, NoKeep, NoKeep),
     Keep(0, NoKeep, NoKeep, NoKeep, NoKeep, NoKeep),
     Keep(5, NoKeep, NoKeep, NoKeep, NoKeep, NoKeep),
     Keep(NoKeep, NoKeep, 7, NoKeep, NoKeep, NoKeep),
     Keep(1, 24, 7, 4, 12, 2)}

RetentionPolicyEntries ==
    [selector : [tags : RetentionTags, hostname : RetentionHostnames], retention : Retentions]

\* spec.policies, which has at least one entry, and spec.prune of a
\* GlobalRetentionPolicy
RetentionSpecs ==
    [policies : UNION {[1..n -> RetentionPolicyEntries] : n \in 1..MaxPolicies},
     prune : BOOLEAN]

\* strings.Join
RECURSIVE Join(_, _)
Join(lines, sep) ==
    IF lines = <<>> THEN <<>>
    ELSE IF Len(lines) = 1 THEN lines[1]
    ELSE lines[1] \o <<sep>> \o Join(Tail(lines), sep)

\* " --tag %s" for each tag
RECURSIVE TagFlags(_)
TagFlags(tags) ==
    IF tags = <<>> THEN <<>> ELSE <<" --tag ">> \o Head(tags) \o TagFlags(Tail(tags))

\* a retention rule that is set and positive
KeepFlag(flag, n) == IF n # NoKeep /\ n > 0 THEN <<flag>> \o FormatNat(n) ELSE <<>>

\* the forget command of one entry
forgetCommand(p) ==
    <<"restic forget">>
        \o TagFlags(p.selector.tags)
        \o (IF p.selector.hostname # <<>> THEN <<" --host ">> \o p.selector.hostname ELSE <<>>)
        \o KeepFlag(" --keep-last ", p.retention.keepLast)
        \o KeepFlag(" --keep-hourly ", p.retention.keepHourly)
        \o KeepFlag(" --keep-daily ", p.retention.keepDaily)
        \o KeepFlag(" --keep-weekly ", p.retention.keepWeekly)
        \o KeepFlag(" --keep-monthly ", p.retention.keepMonthly)
        \o KeepFlag(" --keep-yearly ", p.retention.keepYearly)

\* the two commands of each entry, from entry i on
RECURSIVE PolicyCommands(_, _)
PolicyCommands(policies, i) ==
    IF i > Len(policies) THEN <<>>
    ELSE <<<<"echo 'Executing policy ">> \o FormatNat(i) \o <<"'">>, forgetCommand(policies[i])>>
             \o PolicyCommands(policies, i + 1)

buildRetentionScript(spec) ==
    Join(<<<<"set -e">>, <<"echo 'Starting retention policy execution'">>>>
             \o PolicyCommands(spec.policies, 1)
             \o (IF spec.prune THEN <<<<"echo 'Running prune'">>, <<"restic prune">>>> ELSE <<>>)
             \o <<<<"echo 'Retention policy execution completed'">>>>,
         Newline)

\* a GlobalRetentionPolicy with this spec
NewRetentionPolicy(name, spec) ==
    [exists |-> TRUE, name |-> name, namespace |-> OwnNamespace, spec |-> spec]

\* buildCronJob of the policy: the script is the argument of the container
buildRetentionCronJob(p) ==
    [name |-> PolicyCronJobName(p.name), namespace |-> p.namespace, owner |-> p.name,
     args |-> <<buildRetentionScript(p.spec)>>]

----------------------------------------------------------------------------
(* SpecRetention: the CronJob built for a GlobalRetentionPolicy *)

BuildRetentionCronJob ==
    /\ cronJobs = {}
    /\ cronJobs' = {buildRetentionCronJob(policy)}
    /\ calls' = <<Call("buildCronJob", TRUE, "")>>
    /\ result' = NoResult
    /\ UNCHANGED <<notifyVars, clock, restoreVars, repoVars, backup, policy, repos>>

InitRetention ==
    /\ NotifyIdle
    /\ clock = 1
    /\ RestoreIdle
    /\ RepoIdle
    /\ backup = NoObject
    /\ \E spec \in RetentionSpecs : policy = NewRetentionPolicy("p1", spec)
    /\ repos = <<>>
    /\ cronJobs = {}
    /\ calls = <<>>
    /\ result = NoResult

NextRetention == BuildRetentionCronJob

SpecRetention == InitRetention /\ [][NextRetention]_vars

----------------------------------------------------------------------------
(* Properties of the retention script *)

\* the lines of a text, as the shell reads them
RECURSIVE SplitLines(_)
SplitLines(t) ==
    IF \E i \in 1..Len(t) : t[i] = Newline
    THEN LET i == CHOOSE k \in 1..Len(t) : t[k] = Newline /\ \A j \in 1..(k - 1) : t[j] # Newline
         IN  <<SubSeq(t, 1, i - 1)>> \o SplitLines(SubSeq(t, i + 1, Len(t)))
    ELSE <<t>>

\* the lines of a script that invoke this command
Invocations(script, command) ==
    LET invokes(line) == line # <<>> /\ line[1] = command
    IN  SelectSeq(SplitLines(script), invokes)

\* the positions of those lines in the script
InvocationIndexes(script, command) ==
    {i \in 1..Len(SplitLines(script)) :
        SplitLines(script)[i] # <<>> /\ SplitLines(script)[i][1] = command}

\* a forget invocation carries the selector and the keep rules of an entry
Carries(line, p) ==
    LET keeps(flag, n) == (n # NoKeep /\ n > 0) => ContainsText(line, <<flag>> \o FormatNat(n))
    IN  /\ \A k \in 1..Len(p.selector.tags) :
               ContainsText(line, <<" --tag ">> \o p.selector.tags[k])
        /\ p.selector.hostname # <<>> =>
               ContainsText(line, <<" --host ">> \o p.selector.hostname)
        /\ keeps(" --keep-last ", p.retention.keepLast)
        /\ keeps(" --keep-hourly ", p.retention.keepHourly)
        /\ keeps(" --keep-daily ", p.retention.keepDaily)
        /\ keeps(" --keep-weekly ", p.retention.keepWeekly)
        /\ keeps(" --keep-monthly ", p.retention.keepMonthly)
        /\ keeps(" --keep-yearly ", p.retention.keepYearly)

\* the claim of C25 about one script and the spec it was built from
OneForgetPerEntryThenPrune(script, spec) ==
    LET forgets == Invocations(script, "restic forget")
        prunes == InvocationIndexes(script, "restic prune")
    IN  /\ Len(forgets) = Len(spec.policies)
        /\ \A i \in 1..Len(forgets) : i <= Len(spec.policies) => Carries(forgets[i], spec.policies[i])
        /\ Cardinality(prunes) = IF spec.prune THEN 1 ELSE 0
        /\ \A i \in prunes : \A k \in InvocationIndexes(script, "restic forget") : k < i

\* C25: the retention script built for a policy holds exactly one forget
\* invocation per entry of spec.policies, in the order of the entries, each
\* with the tags, the hostname and the keep rules of its entry, followed by
\* exactly one prune invocation when spec.prune is set and by none when it
\* is not
C25_RetentionScript ==
    \A cj \in cronJobs : OneForgetPerEntryThenPrune(cj.args[1], policy.spec)

----------------------------------------------------------------------------
(* Properties of the schedule *)

ConfiguredReasons == {"BackupConfigured", "RetentionPolicyConfigured"}

\* the Reconcile that has just returned read a Backup or a policy whose
\* schedule the parser rejects, and its CronJob was written
ReconciledInvalidSchedule ==
    /\ Scheduled.exists
    /\ Scheduled.spec.schedule = InvalidSchedule
    /\ Called(calls, CronJobWrites)
    /\ \A i \in 1..Len(calls) : calls[i].op \in CronJobWrites => calls[i].ok

\* C26: a Reconcile of a Backup or a policy whose cron expression is invalid
\* does not fail: it surfaces no error and no failure condition, the object
\* is set Ready=True, and nextBackup (nextRun) is unset in the status after it
C26_InvalidScheduleLeavesNextRunUnset ==
    ReconciledInvalidSchedule =>
        /\ LastCall.op = "StatusUpdate"
        /\ LastCall.arg \in ConfiguredReasons
        /\ LastCall.ok =>
               /\ ~result.err
               /\ \E reason \in ConfiguredReasons : ReadyTrue(Scheduled.status.conditions, reason)
               /\ Scheduled.status.nextRun = 0

----------------------------------------------------------------------------
(* Properties of the finalizers *)

\* this step is a Reconcile that read its object and had no Update refused
ReconcileStep ==
    /\ calls' # <<>>
    /\ calls'[1] = Call("Get", TRUE, "")
    /\ \A i \in 1..Len(calls') : calls'[i].op = "Update" => calls'[i].ok

\* the finalizer of an object of one kind over a step: a Reconcile leaves the
\* object with the finalizer, and an object with the finalizer disappears
\* only in a Reconcile that removed it
FinalizerKept(o, p) ==
    /\ (ReconcileStep /\ o.exists /\ p.exists) => p.finalizer
    /\ (o.exists /\ o.finalizer /\ ~p.exists) =>
           /\ o.deleting
           /\ Call("Update", TRUE, "") \in {calls'[i] : i \in 1..Len(calls')}

\* C27: each of the four kinds, Repository, Backup, Restore and retention
\* policy, has its finalizer once its reconciler has reconciled it, and an
\* object with the finalizer disappears only when the reconciler, on a
\* requested deletion, has removed the finalizer
C27_FinalizerOnEveryKind ==
    [][/\ FinalizerKept(resticRepository, resticRepository')
       /\ FinalizerKept(backup, backup')
       /\ FinalizerKept(restore, restore')
       /\ FinalizerKept(policy, policy')]_vars

----------------------------------------------------------------------------
(* Properties of the reconcile of an object under deletion *)

\* this step is a Reconcile that read the object r, and r is under deletion
ReconciledUnderDeletion(r) ==
    /\ r.exists /\ r.deleting
    /\ calls' # <<>>
    /\ calls'[1] = Call("Get", TRUE, "")

\* the Reconcile that read r, with o in the store before and p after, did the
\* teardown only: its one call after the Get is the Update that removes the
\* finalizer, no Job and no CronJob is created or changed, and the status in
\* the store is the one it had
TeardownOnly(r, o, p) ==
    ReconciledUnderDeletion(r) =>
        /\ Len(calls') = IF r.finalizer THEN 2 ELSE 1
        /\ r.finalizer => calls'[2].op = "Update"
        /\ jobs' = jobs /\ jobCreates' = jobCreates
        /\ cronJobs' = cronJobs
        /\ p.status = o.status
        /\ p.spec = o.spec
        /\ result'.requeueAfter = 0
        /\ IF r.finalizer /\ calls'[2].ok
           THEN ~p.exists /\ ~p.finalizer /\ ~result'.err
           ELSE p = o /\ (result'.err <=> r.finalizer)

----------------------------------------------------------------------------
(* Properties of the write conflicts *)

\* this step is a Reconcile in which no call failed of itself, made from a
\* cached copy that is older than the persisted Repository, and it came to
\* write the status: the store answered that write with a conflict
MetConflict ==
    /\ resticRepository.exists /\ repositoryCache.exists
    /\ repositoryCache # resticRepository
    /\ Called(calls', {"StatusUpdate"})
    /\ \E plan \in PlansWithoutLock :
           /\ plan.faults = {}
           /\ LET out == RepositoryReconcileOn(repositoryCache, resticRepository, secret,
                                               staleLockThreshold, plan, clock)
              IN  /\ resticRepository' = out.c.store
                  /\ calls' = out.c.calls
                  /\ result' = out.res

\* C29: a Reconcile whose status write meets a resource-version conflict
\* retries the write itself: the Reconcile returns no error and its status
\* write is accepted in the end
C29_ConflictRetriedLocally ==
    [][MetConflict => ~result'.err /\ StatusWritten(calls')]_vars

----------------------------------------------------------------------------
(* Notifications: Manager.Notify over its two backends *)

EventTypeSuccess == "success"
EventTypeFailure == "failure"
EventTypeWarning == "warning"

EventTypes == {EventTypeSuccess, EventTypeFailure, EventTypeWarning}

\* Config.Pushgateway: nil, or a PushgatewayConfig with or without a URL
PushgatewayConfigs ==
    {[isNil |-> TRUE]} \cup {[isNil |-> FALSE, URL |-> u] : u \in {"", "http://pushgateway"}}

\* Config.Ntfy: nil, or an NtfyConfig with or without a ServerURL
NtfyConfigs ==
    {[isNil |-> TRUE]} \cup
    {[isNil |-> FALSE, ServerURL |-> u, OnlyOnFailure |-> o] :
        u \in {"", "http://ntfy"}, o \in BOOLEAN}

\* the error of PushgatewayNotifier.Notify: nil (the empty text) or a text
PushgatewayOutcomes ==
    {<<>>,
     <<"failed to push metrics to Pushgateway: ", "unexpected status code 500">>,
     <<"failed to push metrics to Pushgateway: ", "connection refused">>}

\* the error of NtfyNotifier.Notify: nil (the empty text) or a text
NtfyOutcomes ==
    {<<>>,
     <<"ntfy returned status code ", "500">>,
     <<"failed to send ntfy notification: ", "connection refused">>}

\* fmt.Errorf("<backend>: %w", err)
BackendError(backend, err) == <<backend, ": ">> \o err

\* Manager.Notify that returns at the first backend that fails
Notify_StopsAtFirstError(cfg, ev, srv) ==
    LET toPush == ~cfg.Pushgateway.isNil /\ cfg.Pushgateway.URL # ""
        toNtfy == /\ ~cfg.Ntfy.isNil /\ cfg.Ntfy.ServerURL # ""
                  /\ (~cfg.Ntfy.OnlyOnFailure \/ ev = EventTypeFailure)
    IN  IF toPush /\ srv.pushgateway # <<>>
        THEN [received |-> <<"pushgateway">>,
              err |-> <<"notification errors: ", "[">>
                          \o BackendError("pushgateway", srv.pushgateway) \o <<"]">>]
        ELSE LET r1 == IF toPush THEN <<"pushgateway">> ELSE <<>>
             IN  IF toNtfy
                 THEN [received |-> r1 \o <<"ntfy">>,
                       err |-> IF srv.ntfy # <<>>
                               THEN <<"notification errors: ", "[">>
                                        \o BackendError("ntfy", srv.ntfy) \o <<"]">>
                               ELSE <<>>]
                 ELSE [received |-> r1, err |-> <<>>]

\* Manager.Notify: the backends it calls, in order, and the error it returns
\* (the empty text for nil); errs is printed with %v, between brackets and
\* with a space between its errors
Notify(cfg, ev, srv) ==
    LET toPush == ~cfg.Pushgateway.isNil /\ cfg.Pushgateway.URL # ""
        r1 == IF toPush THEN <<"pushgateway">> ELSE <<>>
        errs1 == IF toPush /\ srv.pushgateway # <<>>
                 THEN <<BackendError("pushgateway", srv.pushgateway)>> ELSE <<>>
        toNtfy == /\ ~cfg.Ntfy.isNil /\ cfg.Ntfy.ServerURL # ""
                  /\ (~cfg.Ntfy.OnlyOnFailure \/ ev = EventTypeFailure)
        r2 == IF toNtfy THEN r1 \o <<"ntfy">> ELSE r1
        errs2 == IF toNtfy /\ srv.ntfy # <<>>
                 THEN errs1 \o <<BackendError("ntfy", srv.ntfy)>> ELSE errs1
    IN  [received |-> r2,
         err |-> IF Len(errs2) > 0
                 THEN <<"notification errors: ", "[">> \o Join(errs2, " ") \o <<"]">>
                 ELSE <<>>]

----------------------------------------------------------------------------
(* SpecNotify: one notification sent through Manager.Notify *)

SendNotification ==
    /\ notifyErr = NotNotified
    /\ LET out == Notify(config, event, servers)
       IN  /\ received' = out.received
           /\ notifyErr' = out.err
    /\ UNCHANGED <<clock, restoreVars, backupVars, repoVars, calls, result,
                   config, event, servers>>

InitNotify ==
    /\ clock = 1
    /\ RestoreIdle
    /\ BackupIdle
    /\ RepoIdle
    /\ calls = <<>>
    /\ result = NoResult
    /\ config \in [Pushgateway : PushgatewayConfigs, Ntfy : NtfyConfigs]
    /\ event \in EventTypes
    /\ servers \in [pushgateway : PushgatewayOutcomes, ntfy : NtfyOutcomes]
    /\ received = <<>>
    /\ notifyErr = NotNotified

NextNotify == SendNotification

SpecNotify == InitNotify /\ [][NextNotify]_vars

----------------------------------------------------------------------------
(* Properties of the notifications *)

Backends == {"pushgateway", "ntfy"}

\* the backend is configured, and its configuration asks for this event
ConfiguredFor(backend) ==
    IF backend = "pushgateway"
    THEN ~config.Pushgateway.isNil /\ config.Pushgateway.URL # ""
    ELSE /\ ~config.Ntfy.isNil /\ config.Ntfy.ServerURL # ""
         /\ (~config.Ntfy.OnlyOnFailure \/ event = EventTypeFailure)

\* the number of calls of the backend's Notify
Deliveries(backend) == Cardinality({i \in 1..Len(received) : received[i] = backend})

\* the backend failed: it is configured and its Notify returns an error
BackendFails(backend) == ConfiguredFor(backend) /\ servers[backend] # <<>>

\* C30: Manager.Notify calls each configured backend once whatever the other
\* returns; it returns an error exactly when a backend failed, and the error
\* names each backend that failed, followed by that backend's own error, and
\* no other backend
C30_EveryBackendAttempted ==
    notifyErr # NotNotified =>
        /\ \A b \in Backends : Deliveries(b) = IF ConfiguredFor(b) THEN 1 ELSE 0
        /\ (notifyErr = <<>>) <=> ~\E b \in Backends : BackendFails(b)
        /\ \A b \in Backends :
               /\ BackendFails(b) => ContainsText(notifyErr, BackendError(b, servers[b]))
               /\ ~BackendFails(b) => ~ContainsText(notifyErr, <<b, ": ">>)

\* the Pushgateway failed, ntfy received the notification all the same, and
\* the error names the Pushgateway
C30_Witness ==
    /\ notifyErr # NotNotified
    /\ BackendFails("pushgateway")
    /\ ConfiguredFor("ntfy") /\ servers.ntfy = <<>>
    /\ received = <<"pushgateway", "ntfy">>
    /\ ContainsText(notifyErr, <<"pushgateway", ": ">>)

----------------------------------------------------------------------------
(* Properties of the RepositoryReady condition of a Backup *)

\* the reasons of a Backup whose repository is missing or not ready
RepositoryNotUsableReasons == {"RepositoryNotFound", "RepositoryNotReady"}

\* C31: a Backup whose persisted status has Ready=False with reason
\* RepositoryNotFound or RepositoryNotReady does not have its RepositoryReady
\* condition True
C31_RepositoryReadyFollowsRepository ==
    (/\ backup.exists
     /\ \E reason \in RepositoryNotUsableReasons :
            ReadyFalse(backup.status.conditions, reason))
        => ~IsConditionTrue(backup.status.conditions, "RepositoryReady")

----------------------------------------------------------------------------
(* Properties of the writes to a Repository *)

\* the Repository without its status: metadata and what stands for the spec
WithoutStatus(r) == [exists |-> r.exists, name |-> r.name,
                     generation |-> r.generation, finalizer |-> r.finalizer]

\* C32: a Reconcile of a Repository changes nothing of the persisted object
\* but its status, and calls no Update of the object; the Repository never
\* carries a finalizer, so that a deletion by the user removes it at once
C32_RepositoryWrittenThroughStatusOnly ==
    [][/\ ~resticRepository.finalizer /\ ~resticRepository'.finalizer
       /\ calls' # <<>> =>
              /\ WithoutStatus(resticRepository') = WithoutStatus(resticRepository)
              /\ ~Called(calls', {"Update"})
       /\ (calls' = <<>> /\ resticRepository' # resticRepository) =>
              /\ ~resticRepository'.exists
              /\ resticRepository' = [resticRepository EXCEPT !.exists = FALSE]]_vars

\* a Reconcile has written the status of a Repository, which is as the user
\* created it in everything else
C32_Witness ==
    /\ resticRepository.exists
    /\ StatusWritten(calls)
    /\ resticRepository.status # NewRepository.status
    /\ WithoutStatus(resticRepository) = WithoutStatus(NewRepository)

----------------------------------------------------------------------------
(* SpecBackupLive: a Backup reconciled only on its creation and on the     *)
(* requeues its own Reconcile asks for; what happens to the repository and *)
(* to the CronJob reaches the reconciler through no event                  *)

\* the work queue holds the request: the object was created and not yet
\* reconciled, or the last Reconcile returned an error or a RequeueAfter
RequeueDue == result = NoResult \/ result.err \/ result.requeueAfter > 0

\* the Reconcile of the queued request, under the faults f
RequeuedReconcile(f) ==
    /\ RequeueDue
    /\ backup # NoObject
    /\ LET out == BackupReconcile(backup, cronJobs, repos, f, clock)
       IN  /\ backup' = out.c.store
           /\ cronJobs' = out.c.cronJobs
           /\ calls' = out.c.calls
           /\ result' = out.res
           /\ UNCHANGED <<notifyVars, clock, restoreVars, repoVars, policy, repos>>

RequeuedReconcileBackup == \E f \in ScheduledFaults : RequeuedReconcile(f)

\* the referenced repository changes and no event reaches the Backup's queue
RepositoryChangesUnwatched ==
    \E ns \in {ReferencedNamespace} : \E r \in RepositoryStates(ns) :
        /\ r # repos[ns]
        /\ repos' = [repos EXCEPT ![ns] = r]
        /\ UNCHANGED <<notifyVars, clock, restoreVars, repoVars, backup, policy, cronJobs,
                       calls, result>>

\* the CronJob is deleted and no event reaches the Backup's queue
CronJobDeletedUnwatched ==
    \E cj \in cronJobs :
        /\ cronJobs' = cronJobs \ {cj}
        /\ UNCHANGED <<notifyVars, clock, restoreVars, repoVars, backup, policy, repos,
                       calls, result>>

InitBackupLive == InitBackup /\ backup # NoObject

NextBackupLive ==
    \/ RequeuedReconcileBackup
    \/ RepositoryChangesUnwatched
    \/ CronJobDeletedUnwatched

\* a Reconcile of the queued request in which no API call fails would change
\* the state: ENABLED <<RequeuedReconcile({})>>_vars, computed
ReconcileWouldAct ==
    /\ RequeueDue
    /\ backup # NoObject
    /\ LET out == BackupReconcile(backup, cronJobs, repos, {}, clock)
       IN  <<out.c.store, out.c.cronJobs, out.c.calls, out.res>>
               # <<backup, cronJobs, calls, result>>

\* the queue hands a due request to Reconcile, and the API calls of a
\* Reconcile do not fail for ever: weak fairness of RequeuedReconcile({}),
\* written out
SpecBackupLive ==
    /\ InitBackupLive /\ [][NextBackupLive]_vars
    /\ ([]<>~ReconcileWouldAct \/ []<><<RequeuedReconcile({})>>_vars)

----------------------------------------------------------------------------
(* Properties of the progress of a Backup *)

\* the referenced repository is Ready=True
RepositoryIsReady ==
    repos[ReferencedNamespace].exists
        /\ IsConditionTrue(repos[ReferencedNamespace].conditions, "Ready")

\* the Backup is Ready=True/BackupConfigured and its CronJob exists
BackupIsConfigured ==
    /\ backup.exists
    /\ ReadyTrue(backup.status.conditions, "BackupConfigured")
    /\ \E cj \in cronJobs :
           cj.name = BackupCronJobName(backup.name) /\ cj.namespace = backup.namespace

\* C33: once the referenced repository is Ready=True for good, the Backup,
\* reconciled only on the requeues its Reconcile asks for, has its CronJob
\* and is Ready=True/BackupConfigured again and again
C33_NotReadyRepositoryIsTransient ==
    <>[]RepositoryIsReady => []<>BackupIsConfigured

\* the Backup is configured by a Reconcile that found the repository ready and
\* created the CronJob, and asks for its next requeue
C33_Witness ==
    /\ BackupIsConfigured
    /\ RepositoryIsReady
    /\ Called(calls, {"CreateCronJob"})
    /\ result.requeueAfter > 0
    /\ GetCondition(backup.status.conditions, "Ready").lastTransitionTime = 1

----------------------------------------------------------------------------
(* SpecRestoreLive: a Restore reconciled only on the events of the Restore *)
(* itself and on the requeues its own Reconcile asks for; what happens to  *)
(* its Job reaches the reconciler through no event                         *)

\* the Reconcile of the queued request, under the faults f
RequeuedRestoreReconcile(f) ==
    /\ RequeueDue
    /\ LET out == RestoreReconcile(restoreCache, restore, jobs, f, clock, backupObj, repoObj)
       IN  /\ jobCreates + out.c.created <= MaxJobCreates
           /\ restore' = out.c.store
           /\ jobs' = out.c.jobs
           /\ jobCreates' = jobCreates + out.c.created
           /\ calls' = out.c.calls
           /\ result' = out.res
           /\ UNCHANGED <<notifyVars, clock, restoreCache, backupObj, repoObj, backupVars,
                          repoVars>>

RequeuedReconcileRestore == \E f \in RestoreFaults : RequeuedRestoreReconcile(f)

\* the Job controller reports a succeeded or a failed pod, or the Job is
\* deleted, and no event reaches the Restore's queue
JobEndsUnwatched ==
    /\ \E j \in jobs :
        \/ j.succeeded = 0 /\ jobs' = (jobs \ {j}) \cup {[j EXCEPT !.succeeded = 1]}
        \/ j.failed = 0 /\ jobs' = (jobs \ {j}) \cup {[j EXCEPT !.failed = 1]}
        \/ jobs' = jobs \ {j}
    /\ UNCHANGED <<notifyVars, clock, restore, restoreCache, backupObj, repoObj, jobCreates,
                   backupVars, repoVars, calls, result>>

\* a Reconcile of the queued request in which no API call fails would change
\* the state: ENABLED <<RequeuedRestoreReconcile({})>>_vars, computed
RestoreReconcileWouldAct ==
    /\ RequeueDue
    /\ LET out == RestoreReconcile(restoreCache, restore, jobs, {}, clock, backupObj, repoObj)
       IN  /\ jobCreates + out.c.created <= MaxJobCreates
           /\ <<out.c.store, out.c.jobs, out.c.created, out.c.calls, out.res>>
                  # <<restore, jobs, 0, calls, result>>

InitRestoreLive == InitRestore /\ backupObj /\ repoObj

\* the update of the Restore reaches the cache and, being an event of the
\* Restore itself, its queue
NextRestoreLive ==
    \/ RequeuedReconcileRestore
    \/ RestoreCacheSync
    \/ JobEndsUnwatched

\* the queue hands a due request to Reconcile, the API calls of a Reconcile do
\* not fail for ever, and the cache catches up with the store: weak fairness
\* of RequeuedRestoreReconcile({}) and of RestoreCacheSync, written out
SpecRestoreLive ==
    /\ InitRestoreLive /\ [][NextRestoreLive]_vars
    /\ ([]<>~RestoreReconcileWouldAct \/ []<><<RequeuedRestoreReconcile({})>>_vars)
    /\ []<>(restoreCache = restore)

----------------------------------------------------------------------------
(* Properties of the progress of a Restore *)

RestoreIsInProgress ==
    restore.exists /\ restore.status.phase = RestorePhaseInProgress

RestoreIsTerminal ==
    restore.exists /\ restore.status.phase \in TerminalPhases

\* the Job the Restore refers to is gone or reports a succeeded or failed pod
JobHasEnded ==
    \A j \in ReferencedJobs(restore) : j.succeeded > 0 \/ j.failed > 0

\* C34: a Restore that is InProgress becomes Completed or Failed, provided its
\* Job ends (reports succeeded > 0 or failed > 0, or is gone), with the
\* reconciler woken by its own requeues and by no event of the Job
C34_InProgressEnds ==
    []<>JobHasEnded => (RestoreIsInProgress ~> RestoreIsTerminal)

\* the Restore is Completed by a poll that found a succeeded pod of its Job
C34_Witness ==
    /\ RestoreIsTerminal
    /\ restore.status.phase = RestorePhaseCompleted
    /\ restore.status.jobRef # NoRef
    /\ JobHasEnded /\ ReferencedJobs(restore) # {}
    /\ calls = <<Call("Get", TRUE, ""), Call("GetJob", TRUE, ""),
                 Call("StatusUpdate", TRUE, RestorePhaseCompleted)>>

----------------------------------------------------------------------------
(* Properties of a lock whose age cannot be read *)

\* the texts of a locked check that hold no age, or one parseLockAge cannot read
UnreadableLockTexts ==
    {<<LockedPhrase>> \o LockedBy} \cup {LockedText(a) : a \in MalformedAges}

\* C35: when the check fails on a lock and the text holds no age that can be
\* read, the age counts as zero and the lock as fresh, in every Reconcile
\* that meets such a text: unlock is not called (nor init, nor a second
\* check), Ready=False/RepositoryLocked is written with a lock age of 0s in
\* its message, and a requeue after 30 seconds is returned (the error of the
\* status write when that write fails)
C35_UnreadableAgeIsFresh ==
    \A t \in UnreadableLockTexts :
        FirstCheckSaid(t) =>
            /\ ~Called(calls, {"Unlock", "Init", "Stats"})
            /\ TreatedAsActive
            /\ AfterFirstCheck(1).ok =>
                   ReadyMessage = LockedMessage(0, ThresholdInForce)

\* a Reconcile at time 2 met a lock without an age and reported the
\* Repository locked, which has been Ready=False since time 1
C35_Witness ==
    /\ clock = 2
    /\ FirstCheckSaid(<<LockedPhrase>> \o LockedBy)
    /\ ReadyFalse(resticRepository.status.conditions, "RepositoryLocked")
    /\ GetCondition(resticRepository.status.conditions, "Ready").lastTransitionTime = 1
    /\ ReadyMessage = LockedMessage(0, ThresholdInForce)
    /\ result = Result(30, FALSE)

----------------------------------------------------------------------------
(* Properties of a failed unlock *)

\* the Reconcile that has just returned called unlock, and unlock failed
UnlockFailed == Call("Unlock", FALSE, "") \in {calls[i] : i \in 1..Len(calls)}

UnlockIndex == FirstIndex(calls, {"Unlock"})

\* C36: when the unlock of a stale lock fails, that Reconcile neither retries
\* the check nor calls init: its next and last call writes
\* Ready=False/UnlockFailed, and it returns a requeue after 30 seconds (the
\* error of the status write when that write fails)
C36_FailedUnlockStops ==
    UnlockFailed =>
        /\ CountCalls(calls, "Unlock") = 1
        /\ CountCalls(calls, "Check") = 1
        /\ FirstIndex(calls, {"Check"}) = UnlockIndex - 1
        /\ ~Called(calls, {"Init", "Stats"})
        /\ Len(calls) = UnlockIndex + 1
        /\ LastCall.op = "StatusUpdate" /\ LastCall.arg = "UnlockFailed"
        /\ IF LastCall.ok
           THEN /\ ReadyFalse(resticRepository.status.conditions, "UnlockFailed")
                /\ result = Result(30, FALSE)
           ELSE result.err

\* the unlock of a lock of one hour failed and the Repository was reported
\* Ready=False/UnlockFailed
C36_Witness ==
    /\ UnlockFailed
    /\ FirstCheckSaid(LockedText(FormatDuration(Hour)))
    /\ ReadyFalse(resticRepository.status.conditions, "UnlockFailed")
    /\ result = Result(30, FALSE)

----------------------------------------------------------------------------
(* Properties of Ready=True of a Repository *)

\* the Reconcile that has just returned set Ready=True/RepositoryAccessible
\* and called the status write for it
SetAccessible ==
    \E i \in 1..Len(calls) :
        calls[i].op = "StatusUpdate" /\ calls[i].arg = "RepositoryAccessible"

\* the first check of the Reconcile that has just returned met a lock whose
\* age, as parseLockAge reads it, is below the threshold
FirstCheckMetFreshLock ==
    /\ Called(calls, {"Check"})
    /\ LET t == calls[FirstIndex(calls, {"Check"})].arg
       IN  /\ t # <<>>
           /\ Contains(t, LockedPhrase)
           /\ LockAgeOf[t] < ThresholdInForce

\* in the Reconcile that has just returned a check succeeded or init returned
\* success, and nothing stood against Ready=True: the credentials were read,
\* no check met a fresh lock, no unlock and no init failed
AccessibleJustified ==
    /\ \/ \E i \in 1..Len(calls) : calls[i].op = "Check" /\ calls[i].ok
       \/ \E i \in 1..Len(calls) : calls[i].op = "Init" /\ calls[i].ok
    /\ \E i \in 1..Len(calls) : calls[i] = Call("GetSecret", TRUE, "")
    /\ ~FirstCheckMetFreshLock
    /\ ~\E i \in 1..Len(calls) : calls[i].op \in {"Unlock", "Init"} /\ ~calls[i].ok

\* C37: a Reconcile of a Repository sets Ready=True/RepositoryAccessible, and
\* the persisted Ready condition becomes True, only when in that Reconcile the
\* check succeeded, at once or after the unlock, or init returned success;
\* never after a failure to read the credentials, a fresh lock, a failed
\* unlock or a failed init
C37_ReadyOnlyWhenAccessible ==
    [][(\/ SetAccessible'
        \/ /\ resticRepository'.exists
           /\ IsConditionTrue(resticRepository'.status.conditions, "Ready")
           /\ ~IsConditionTrue(resticRepository.status.conditions, "Ready"))
           => AccessibleJustified']_vars

\* Ready=True was written after a check that failed without a lock and an
\* init that succeeded
C37_Witness ==
    /\ SetAccessible
    /\ ReadyTrue(resticRepository.status.conditions, "RepositoryAccessible")
    /\ FirstCheckSaid(<<"unable to open config file">>)
    /\ \E i \in 1..Len(calls) : calls[i] = Call("Init", TRUE, "")

----------------------------------------------------------------------------
(* Properties of the CronJob reference of a Backup *)

\* C38: a Backup whose persisted status has Ready=True/BackupConfigured has
\* status.cronJobRef set, naming the CronJob resticbackup-<name> in the
\* namespace of the Backup
C38_ConfiguredBackupNamesCronJob ==
    (backup.exists /\ ReadyTrue(backup.status.conditions, "BackupConfigured"))
        => backup.status.cronJobRef =
               [name |-> BackupCronJobName(backup.name), namespace |-> backup.namespace]

----------------------------------------------------------------------------
(* Properties of a Job with succeeded and failed pods *)

\* the Restore keeps the outcome it has: Completed with Ready=True, or Failed
\* with Ready=False
OutcomeKept ==
    (restore.exists /\ restore'.exists) =>
        /\ restore.status.phase = RestorePhaseCompleted =>
               /\ restore'.status.phase = RestorePhaseCompleted
               /\ IsConditionTrue(restore'.status.conditions, "Ready")
        /\ restore.status.phase = RestorePhaseFailed =>
               /\ restore'.status.phase = RestorePhaseFailed
               /\ ~IsConditionTrue(restore'.status.conditions, "Ready")

\* C39: a polled Job that reports succeeded > 0 and failed > 0 at once takes
\* the InProgress Restore to Completed with Ready=True, the succeeded pods
\* being looked at first: that Reconcile writes no Failed phase; and a
\* Restore that is Completed never becomes Failed, nor a Failed one Completed
C39_SuccessBeforeFailure ==
    [][/\ \A j \in jobs :
              (PolledJob(j) /\ j.succeeded > 0 /\ j.failed > 0) =>
                  /\ EndedAs(RestorePhaseCompleted, "True", "RestoreCompleted")
                  /\ ~\E i \in 1..Len(calls') :
                         calls'[i].op = "StatusUpdate" /\ calls'[i].arg = RestorePhaseFailed
       /\ OutcomeKept]_vars

\* a Job with a succeeded and a failed pod has been polled, and the Restore
\* is Completed with Ready=True
C39_Witness ==
    /\ ReconciledInProgress(restoreCache)
    /\ \E j \in ReferencedJobs(restore) : j.succeeded > 0 /\ j.failed > 0
    /\ LastCall = Call("StatusUpdate", TRUE, RestorePhaseCompleted)
    /\ restore.status.phase = RestorePhaseCompleted
    /\ ReadyTrue(restore.status.conditions, "RestoreCompleted")

----------------------------------------------------------------------------
(* Properties of the persisted status of a Restore *)

\* C40: in every persisted state of a Restore, phase InProgress comes with
\* jobRef, startTime and restoredSnapshot set, and a completion time comes
\* with phase Completed or Failed and with startTime set
C40_StatusFieldsAgree ==
    restore.exists =>
        /\ restore.status.phase = RestorePhaseInProgress =>
               /\ restore.status.jobRef # NoRef
               /\ restore.status.startTime # 0
               /\ restore.status.restoredSnapshot # ""
        /\ restore.status.completionTime # 0 =>
               /\ restore.status.phase \in TerminalPhases
               /\ restore.status.startTime # 0

\* a Restore started at time 1 is Failed with the completion time 2
C40_Witness ==
    /\ restore.exists
    /\ restore.status.phase = RestorePhaseFailed
    /\ restore.status.startTime = 1
    /\ restore.status.completionTime = 2
    /\ restore.status.jobRef # NoRef

====
